---- MODULE Spec2Model ----
(***************************************************************************)
(* Growth metrics of the EV sales dashboards: CAGR between two fiscal      *)
(* years, top-N ranking, and market share, as computed by                  *)
(*   src/app/research-analysis/cagr_top5_4w_ev_2022_2024/analysis.py       *)
(*   src/app/research-analysis/top10_states_with_highest_cagr/analysis.py  *)
(*                                                                         *)
(* Numbers.  A pandas/numpy cell is a record [t, v]: t = "num" carries the *)
(* integer v, t = "nan" is a missing value / IEEE NaN, t = "inf" is IEEE   *)
(* +infinity, t = "None" is Python's None, t = "ZeroDivisionError" is the  *)
(* exception a Python-number division or power by zero raises.  Sales are  *)
(* whole units.  Percentages are fixed point, in hundredths of a percent   *)
(* (PctScale per percent), truncated toward minus infinity: the finite     *)
(* precision of the float the code computes, at the two decimals the code  *)
(* rounds to and displays.                                                 *)
(***************************************************************************)
EXTENDS Integers, Sequences, FiniteSets, TLC

VARIABLES
    cagr_args,      \* arguments of the current calculate_cagr call
    cagr_ret,       \* what the call returned (or raised); "pending" before it ran
    df_4w,          \* the loaded four-wheeler rows (static after load_data)
    start_year,     \* "Year Range" select_slider, lower handle
    end_year,       \* "Year Range" select_slider, upper handle
    top_n,          \* "Number of Top Manufacturers" slider
    selected_makers,\* "Filter by Specific Manufacturers" multiselect
    top_makers,     \* top_n_makers as returned by get_top_makers_cagr
    result_df,      \* result_df of the last run, after the manufacturer filter
    cagr_calls,     \* the period counts calculate_cagr was called with in the last run
    ms_sales,       \* the '<year> Sales' column handed to the market share functions
    ms_out,         \* the shares they computed; "pending" before they ran
    chg_in,         \* the table handed to a period-over-period computation
    chg_out,        \* its change entries and what is displayed; "pending" before
    st_file,        \* what the body of the states dashboard's load_data can read
    st_cache,       \* the st.cache_data entry of that load_data; None when empty
    st_first,       \* the table the first call of load_data returned; None before
    st_start,       \* states dashboard: fiscal year range, lower handle
    st_end,         \* states dashboard: fiscal year range, upper handle
    st_selected,    \* states dashboard: "Filter by States/UTs" multiselect
    st_top_n,       \* states dashboard: number of top states slider
    st_out,         \* states dashboard: what the last run computed; "pending" before
    pure_call,      \* a metric function, its options and the table passed to it
    pure_arg,       \* the table passed, as it is after the call; "pending" before
    pure_ret,       \* what the call returned; "pending" before
    hub_query,      \* the hub's URL query parameter "analysis"
    hub_prev,       \* st.session_state["previous_selection"]; {} when unset
    hub_widget,     \* the state kept for the sidebar selectbox; {} when none
    hub_page,       \* what the last run of the hub script put on the page
    hub_rerun,      \* the last run ended in st.rerun()
    hub_reruns      \* st.rerun() calls since the last user action

cagr_vars == <<cagr_args, cagr_ret>>
dash_vars == <<df_4w, start_year, end_year, top_n, selected_makers, top_makers,
               result_df, cagr_calls>>
ms_vars == <<ms_sales, ms_out>>
chg_vars == <<chg_in, chg_out>>
st_vars == <<st_file, st_cache, st_first, st_start, st_end, st_selected,
             st_top_n, st_out>>
pure_vars == <<pure_call, pure_arg, pure_ret>>
hub_vars == <<hub_query, hub_prev, hub_widget, hub_page, hub_rerun, hub_reruns>>
vars == <<cagr_args, cagr_ret, df_4w, start_year, end_year, top_n,
          selected_makers, top_makers, result_df, cagr_calls, ms_sales, ms_out,
          chg_in, chg_out, st_file, st_cache, st_first, st_start, st_end,
          st_selected, st_top_n, st_out, pure_call, pure_arg, pure_ret,
          hub_query, hub_prev, hub_widget, hub_page, hub_rerun, hub_reruns>>

(* ------------------------ bounds and constants ----------------------- *)

\* largest sales value of an argument of calculate_cagr / of a market share column
MaxSales == 3
\* largest last-year sales of a maker of the dashboard's dataset
MaxEndSales == 2
\* largest number of makers picked in the manufacturer filter
MaxSelected == 1
\* the fiscal years of the data: the default year range, 2022 to 2024
FirstYear == 2022
LastYear == 2024
\* st.sidebar.slider("Number of Top Manufacturers", min_value=3, max_value=10, value=5)
MinTopN == 3
MaxTopN == 10
DefaultTopN == 5

(* ------------------------------ numbers ------------------------------ *)

Num(x) == [t |-> "num", v |-> x]
NaN == [t |-> "nan", v |-> 0]
Inf == [t |-> "inf", v |-> 0]
PyNone == [t |-> "None", v |-> 0]
ZeroDivisionError == [t |-> "ZeroDivisionError", v |-> 0]
Pending == [t |-> "pending", v |-> 0]

IsNum(x) == x.t = "num"
IsNaN(x) == x.t = "nan"

\* hundredths of a percent in one percent: the two decimals of round(2) / :.2f
PctScale == 100
\* the factor 100 that turns a ratio into percent
Percent == 100
\* fixed-point one: a growth factor of 1.0 in units of 1/(Percent * PctScale)
One == Percent * PctScale

Min(a, b) == IF a <= b THEN a ELSE b
Max(a, b) == IF a >= b THEN a ELSE b

RECURSIVE Gcd(_, _)
Gcd(a, b) == IF b = 0 THEN a ELSE Gcd(b, a % b)

RECURSIVE PowInt(_, _)
PowInt(k, n) == IF n = 0 THEN 1 ELSE k * PowInt(k, n - 1)

\* largest k in lo..hi with k^n <= t   (lo^n <= t is given)
RECURSIVE RootSearch(_, _, _, _)
RootSearch(lo, hi, t, n) ==
    IF lo >= hi THEN lo
    ELSE LET mid == (lo + hi + 1) \div 2
         IN  IF PowInt(mid, n) <= t THEN RootSearch(mid, hi, t, n)
             ELSE RootSearch(lo, mid - 1, t, n)

\* floor(One * (p/q) ** (1/n)) for p >= 0, q > 0, n >= 1: the growth factor
\* (end/start) ** (1/years) in fixed point
RootFix(p, q, n) ==
    LET g  == Gcd(p, q)
        pr == p \div g
        qr == q \div g
        t  == (pr * PowInt(One, n)) \div qr
        hi == IF n = 1 THEN t ELSE Min(One * (pr \div qr + 1), 46340)
    IN  RootSearch(0, hi, t, n)

(* --------------------------- calculate_cagr --------------------------- *)

\* the ratio taken as start/end
GrowthPct_inverted(p, q, years, np) ==
    IF years > 0 THEN (IF p = 0 THEN Inf ELSE Num(RootFix(q, p, years) - One))
    ELSE Num(RootFix(p, q, 0 - years) - One)

\* the growth factor itself: the "- 1" left out
GrowthPct_factor(p, q, years, np) ==
    IF years > 0 THEN Num(RootFix(p, q, years))
    ELSE IF p = 0 THEN (IF np THEN Inf ELSE ZeroDivisionError)
    ELSE Num(RootFix(q, p, 0 - years))

\* (ratio ** (1/years) - 1) * 100 for a ratio p/q >= 0 and years /= 0 finite
GrowthPct(p, q, years, np) ==
    IF years > 0 THEN Num(RootFix(p, q, years) - One)
    ELSE IF p = 0 THEN (IF np THEN Inf ELSE ZeroDivisionError)
    ELSE Num(RootFix(q, p, 0 - years) - One)

\* ratio ** inf - 1) * 100: numpy's 1/0 is inf (with a RuntimeWarning)
GrowthPctInfExp(p, q) ==
    IF p > q THEN Inf
    ELSE IF p = q THEN Num(0)
    ELSE Num(0 - One)

\* the guard written as sales_2022 < 0
calculate_cagr_lt(sales_2022, sales_2024, years, np) ==
    IF IsNum(sales_2022) /\ sales_2022.v < 0 THEN PyNone
    ELSE IF IsNaN(sales_2022) \/ IsNaN(sales_2024) THEN NaN
    ELSE IF sales_2022.v = 0 THEN ZeroDivisionError
    ELSE IF years = 0
         THEN (IF np THEN GrowthPctInfExp(sales_2024.v, sales_2022.v)
               ELSE ZeroDivisionError)
    ELSE GrowthPct(sales_2024.v, sales_2022.v, years, np)

\* np: the arguments are numpy scalars (as the dashboards pass them) rather
\* than Python numbers
calculate_cagr(sales_2022, sales_2024, years, np) ==
    IF IsNum(sales_2022) /\ sales_2022.v <= 0 THEN PyNone
    ELSE IF IsNaN(sales_2022) \/ IsNaN(sales_2024) THEN NaN
    ELSE IF years = 0
         THEN (IF np THEN GrowthPctInfExp(sales_2024.v, sales_2022.v)
               ELSE ZeroDivisionError)
    ELSE GrowthPct(sales_2024.v, sales_2022.v, years, np)

(* ------------------------- the loaded dataset ------------------------- *)

Makers == <<"A", "B", "C", "D">>        \* in sorted (index) order

\* df['fiscal_year'] = df['date'].dt.year + np.where(df['date'].dt.month >= 4, 1, 0)
FiscalYear(date) == date[1] + (IF date[2] >= 4 THEN 1 ELSE 0)

\* one CSV row of a maker as load_data returns it: sold units on a date
\* <<year, month>>, with the fiscal year column added
Row(m, date, sold) ==
    [maker |-> m, date |-> date, fiscal_year |-> FiscalYear(date),
     electric_vehicles_sold |-> sold]

\* an established maker: 1 unit in the first year, 2 in the second and x
\* in the last one
Established(m) ==
    { { Row(m, <<FirstYear - 1, 4>>, 1), Row(m, <<FirstYear, 4>>, 2),
        Row(m, <<LastYear - 1, 12>>, x) } : x \in 1..MaxEndSales }

\* a new entrant: no row in the first fiscal year, two rows in the last
NewEntrant(m) ==
    { Row(m, <<FirstYear, 4>>, 1), Row(m, <<LastYear - 1, 12>>, 1),
      Row(m, <<LastYear, 3>>, 1) }

\* listed from the first year on, with zero sales in it
ZeroStart(m) ==
    { Row(m, <<FirstYear - 1, 4>>, 0), Row(m, <<FirstYear, 4>>, 1),
      Row(m, <<LastYear - 1, 12>>, 2) }

\* leaves the market: no row in the last fiscal year
Leaver(m) ==
    { Row(m, <<FirstYear - 1, 4>>, 2), Row(m, <<FirstYear, 4>>, 1) }

\* the rows of the i-th maker, by the course of its sales over the fiscal
\* years: the first and the last maker take any course, the makers between
\* them are established ones that differ in their last year
Profiles(i) ==
    IF i = 1 \/ i = Len(Makers)
    THEN Established(Makers[i])
           \cup {NewEntrant(Makers[i]), ZeroStart(Makers[i]), Leaver(Makers[i])}
    ELSE {p \in Established(Makers[i]) :
            \E r \in p : r.fiscal_year = LastYear
                         /\ r.electric_vehicles_sold = i - 1}

RECURSIVE DataSetsFrom(_)
DataSetsFrom(i) ==
    IF i > Len(Makers) THEN {{}}
    ELSE { p \cup rest : p \in Profiles(i), rest \in DataSetsFrom(i + 1) }

\* the four-wheeler tables load_data can return
DataSets == DataSetsFrom(1)

(* ------------------- specification: calculate_cagr -------------------- *)

\* period counts: every difference of two fiscal years of the range
PeriodCounts == (FirstYear - LastYear)..(LastYear - FirstYear)

StartValues == {Num(x) : x \in (0 - MaxSales)..MaxSales} \cup {NaN}
EndValues == {Num(x) : x \in 0..MaxSales} \cup {NaN}

\* the worked examples: (100, 400, 2) and (0, 50, 2)
ExampleArgs ==
    { [start |-> Num(100), end |-> Num(400), years |-> 2, np |-> FALSE],
      [start |-> Num(0), end |-> Num(50), years |-> 2, np |-> FALSE] }

CagrArgs ==
    [start : StartValues, end : EndValues, years : PeriodCounts, np : BOOLEAN]
        \cup ExampleArgs

\* the dashboard is not running
DashIdle ==
    /\ df_4w = {}
    /\ start_year = 0
    /\ end_year = 0
    /\ top_n = 0
    /\ selected_makers = {}
    /\ top_makers = {}
    /\ result_df = <<>>
    /\ cagr_calls = {}

\* no market share call is under way
ShareIdle ==
    /\ ms_sales = <<>>
    /\ ms_out = Pending

\* no period-over-period computation is under way
ChangeIdle ==
    /\ chg_in = <<>>
    /\ chg_out = Pending

\* the states dashboard is not running
StatesIdle ==
    /\ st_file = <<>>
    /\ st_cache = PyNone
    /\ st_first = PyNone
    /\ st_start = 0
    /\ st_end = 0
    /\ st_selected = {}
    /\ st_top_n = 0
    /\ st_out = Pending

\* no metric function is being called on a table
PureIdle ==
    /\ pure_call = <<>>
    /\ pure_arg = Pending
    /\ pure_ret = Pending

\* the hub script has not run
HubIdle ==
    /\ hub_query = Pending
    /\ hub_prev = {}
    /\ hub_widget = {}
    /\ hub_page = Pending
    /\ hub_rerun = FALSE
    /\ hub_reruns = 0

CagrInit ==
    /\ cagr_args \in CagrArgs
    /\ cagr_ret = Pending
    /\ DashIdle
    /\ ShareIdle
    /\ ChangeIdle
    /\ StatesIdle
    /\ PureIdle
    /\ HubIdle

CagrCall ==
    /\ cagr_ret = Pending
    /\ cagr_ret' = calculate_cagr(cagr_args.start, cagr_args.end,
                                  cagr_args.years, cagr_args.np)
    /\ UNCHANGED cagr_args
    /\ UNCHANGED dash_vars
    /\ UNCHANGED ms_vars
    /\ UNCHANGED chg_vars
    /\ UNCHANGED st_vars
    /\ UNCHANGED pure_vars
    /\ UNCHANGED hub_vars

CagrNext == CagrCall

SpecCagr == CagrInit /\ [][CagrNext]_vars

(* ---------------------- claims on calculate_cagr ---------------------- *)

Returned == cagr_ret /= Pending

\* C1: for every start value <= 0, whatever the end value and the period
\* count, calculate_cagr returns None and raises nothing.
C1_NonPositiveStartIsNone ==
    (Returned /\ IsNum(cagr_args.start) /\ cagr_args.start.v <= 0)
        => cagr_ret = PyNone

\* a call with start = 0 and a period count of 0 has returned
C1_Witness ==
    /\ Returned
    /\ cagr_args.start = Num(0)
    /\ cagr_args.years = 0
    /\ cagr_ret = PyNone

\* r is floor(One * (end/start) ** (1/years)): r^n * start <= end * One^n
\* and the next fixed-point value is already too large
IsGrowthFactor(r, start, end, n) ==
    /\ r >= 0
    /\ PowInt(r, n) * start <= end * PowInt(One, n)
    /\ PowInt(r + 1, n) * start > end * PowInt(One, n)

\* C2: for start > 0, end >= 0 and n >= 1 periods calculate_cagr returns
\* ((end/start) ^ (1/n) - 1) * 100; start = 100, end = 400, n = 2 gives
\* exactly 100.
C2_CagrFormula ==
    (/\ Returned
     /\ IsNum(cagr_args.start) /\ cagr_args.start.v > 0
     /\ IsNum(cagr_args.end) /\ cagr_args.end.v >= 0
     /\ cagr_args.years >= 1)
        => /\ IsNum(cagr_ret)
           /\ cagr_args \notin ExampleArgs
                => IsGrowthFactor(cagr_ret.v + One, cagr_args.start.v,
                                  cagr_args.end.v, cagr_args.years)
           /\ (cagr_args.start = Num(100) /\ cagr_args.end = Num(400)
               /\ cagr_args.years = 2)
                => cagr_ret = Num(100 * PctScale)

\* the worked example has returned
C2_Witness ==
    /\ Returned
    /\ cagr_args.start = Num(100)
    /\ cagr_args.end = Num(400)
    /\ cagr_args.years = 2
    /\ cagr_ret = Num(100 * PctScale)

\* C3: whenever the period count is not positive (the end period is not
\* strictly after the start period), calculate_cagr fails with an
\* InvalidPeriodRange error and returns no value.
C3_InvalidPeriodRangeRaised ==
    (Returned /\ cagr_args.years <= 0) => cagr_ret.t = "InvalidPeriodRange"


\* C16: for every v > 0 and every period count n > 0, the CAGR from v to v
\* over n periods is exactly 0.
C16_NoGrowthIsZero ==
    (/\ Returned
     /\ IsNum(cagr_args.start) /\ cagr_args.start.v > 0
     /\ cagr_args.end = cagr_args.start
     /\ cagr_args.years > 0)
        => cagr_ret = Num(0)

\* a call with equal positive start and end values over two periods has
\* returned
C16_Witness ==
    /\ Returned
    /\ cagr_args.start = Num(MaxSales)
    /\ cagr_args.end = Num(MaxSales)
    /\ cagr_args.years = 2
    /\ cagr_ret = Num(0)

(* ----------------------- pandas table operations ---------------------- *)

\* Series.sum() of the sold units of a set of rows
RECURSIVE SumSold(_)
SumSold(rows) ==
    IF rows = {} THEN 0
    ELSE LET r == CHOOSE x \in rows : TRUE
         IN  r.electric_vehicles_sold + SumSold(rows \ {r})

\* the makers of a set, as a sequence in sorted order (a groupby / pivot index)
SortedMakers(S) == SelectSeq(Makers, LAMBDA m : m \in S)

\* pd.isna: NaN and None are missing values
IsNA(x) == x.t \in {"nan", "None"}

\* a >= b on numbers and +inf
Geq(a, b) ==
    IF a.t = "inf" THEN TRUE
    ELSE IF b.t = "inf" THEN FALSE
    ELSE a.v >= b.v

Gt(a, b) == ~Geq(b, a)

\* the keys in non-decreasing order, as ascending=True leaves them
InOrder_ascending(keys, q) ==
    \A j1, j2 \in DOMAIN keys :
        j1 < j2 =>
            /\ (~IsNA(keys[q[j1]]) /\ ~IsNA(keys[q[j2]]))
                  => Geq(keys[q[j2]], keys[q[j1]])
            /\ IsNA(keys[q[j1]]) => (IsNA(keys[q[j2]]) /\ q[j1] < q[j2])

\* q orders the keys as sort_values(ascending=False) does (na_position='last'):
\* keys non-increasing, missing keys last in their input order
InOrder(keys, q) ==
    \A j1, j2 \in DOMAIN keys :
        j1 < j2 =>
            /\ (~IsNA(keys[q[j1]]) /\ ~IsNA(keys[q[j2]]))
                  => Geq(keys[q[j1]], keys[q[j2]])
            /\ IsNA(keys[q[j1]]) => (IsNA(keys[q[j2]]) /\ q[j1] < q[j2])

\* DataFrame.sort_values(col, ascending=False) with the default
\* kind='quicksort': every result the sort can give.  quicksort is not a
\* stable sort, so rows with equal keys come out in an order the numpy build
\* decides (stable insertion sort on some, a vectorised sorting network on
\* others): any order of them is a possible outcome.
SortValuesDesc(rows, keys) ==
    { [j \in DOMAIN rows |-> rows[q[j]]] :
        q \in {x \in Permutations(DOMAIN rows) : InOrder(keys, x)} }

\* DataFrame.head(n)
HeadN(rows, n) == SubSeq(rows, 1, Min(n, Len(rows)))

\* DataFrame.tail(n)
TailN(rows, n) == SubSeq(rows, Max(1, Len(rows) - n + 1), Len(rows))

\* df[col]
ColumnOf(rows, col) == [i \in DOMAIN rows |-> rows[i][col]]

\* a column of integers as a column of numbers
NumColumn(column) == [i \in DOMAIN column |-> Num(column[i])]

SeqRange(sq) == {sq[i] : i \in DOMAIN sq}

\* sorted(...) / list.sort() of distinct labels
RECURSIVE SortedSeq(_)
SortedSeq(S) ==
    IF S = {} THEN <<>>
    ELSE LET m == CHOOSE x \in S : \A y \in S : x <= y
         IN  <<m>> \o SortedSeq(S \ {m})

(* ------------------------- get_top_makers_cagr ------------------------ *)

\* df_4w.groupby(['maker', 'fiscal_year'])['electric_vehicles_sold'].sum()
sales_by_maker_year(df) ==
    { [maker |-> k[1], fiscal_year |-> k[2],
       electric_vehicles_sold |->
           SumSold({r \in df : r.maker = k[1] /\ r.fiscal_year = k[2]})] :
      k \in {<<r.maker, r.fiscal_year>> : r \in df} }

\* sales_by_maker_year.groupby('maker')['electric_vehicles_sold'].sum(),
\* one row per maker in index order
total_sales_by_maker(sby) ==
    LET ms == SortedMakers({r.maker : r \in sby})
    IN  [i \in DOMAIN ms |->
            [maker |-> ms[i],
             electric_vehicles_sold |-> SumSold({r \in sby : r.maker = ms[i]})]]

\* the N makers at the other end of the sorted totals
top_n_makers_of_tail(sby, n_makers) ==
    LET totals == total_sales_by_maker(sby)
    IN  { SeqRange(ColumnOf(TailN(sorted, n_makers), "maker")) :
            sorted \in SortValuesDesc(totals,
                NumColumn(ColumnOf(totals, "electric_vehicles_sold"))) }

\* the N makers with the largest total: every outcome of the sort.  The
\* list is used through isin() alone, so it is kept as the set of its makers
top_n_makers_of(sby, n_makers) ==
    LET totals == total_sales_by_maker(sby)
    IN  { SeqRange(ColumnOf(HeadN(sorted, n_makers), "maker")) :
            sorted \in SortValuesDesc(totals,
                NumColumn(ColumnOf(totals, "electric_vehicles_sold"))) }

\* the year columns of the pivot in table order: the fiscal years of the top
\* makers' rows in increasing order, then the start and the end year when
\* no such row has them
pivot_columns(sby, top_n_makers, sy, ey) ==
    LET present == {r.fiscal_year : r \in {x \in sby : x.maker \in top_n_makers}}
    IN  SortedSeq(present)
            \o (IF sy \in present THEN <<>> ELSE <<sy>>)
            \o (IF ey \in present \/ ey = sy THEN <<>> ELSE <<ey>>)

\* top_n_sales.pivot(index='maker', columns='fiscal_year', ...) with the
\* start and end year added as NaN columns when missing, and the CAGR column
pivot_sales_of(sby, top_n_makers, sy, ey) ==
    LET top_n_sales == {r \in sby : r.maker \in top_n_makers}
        cols  == SeqRange(pivot_columns(sby, top_n_makers, sy, ey))
        index == SortedMakers({r.maker : r \in top_n_sales})
        cell(m, y) ==
            IF \E r \in top_n_sales : r.maker = m /\ r.fiscal_year = y
            THEN Num((CHOOSE r \in top_n_sales :
                        r.maker = m /\ r.fiscal_year = y).electric_vehicles_sold)
            ELSE NaN
    IN  [i \in DOMAIN index |->
            LET sales == [y \in cols |-> cell(index[i], y)]
            IN  [maker |-> index[i],
                 sales |-> sales,
                 cagr  |-> calculate_cagr(sales[sy], sales[ey], ey - sy, TRUE)]]

\* every (result_df, top_n_makers) the function can return
get_top_makers_cagr(df, n_makers, sy, ey) ==
    LET sby == sales_by_maker_year(df)
    IN  UNION { { [result_df |-> res, top_n_makers |-> top] :
                    res \in LET pivot == pivot_sales_of(sby, top, sy, ey)
                            IN  SortValuesDesc(pivot, ColumnOf(pivot, "cagr")) } :
                top \in top_n_makers_of(sby, n_makers) }

(* ------------- calculate_yoy_growth, calculate_market_share ----------- *)

\* the int-labelled ('<year> Sales') columns of a result table
YearColumns(rows) == IF rows = <<>> THEN {} ELSE DOMAIN rows[1].sales

\* ((curr / prev) - 1) * 100 on a pandas column: 0/0 is NaN, x/0 is inf
GrowthCell(curr, prev) ==
    IF IsNaN(curr) \/ IsNaN(prev) THEN NaN
    ELSE IF prev.v = 0 THEN (IF curr.v = 0 THEN NaN ELSE Inf)
    ELSE Num((curr.v * One) \div prev.v - One)

\* Series.sum(): missing values are skipped, an all-missing column sums to 0
RECURSIVE ColumnSum(_, _)
ColumnSum(rows, y) ==
    IF rows = <<>> THEN 0
    ELSE (IF IsNum(Head(rows).sales[y]) THEN Head(rows).sales[y].v ELSE 0)
             + ColumnSum(Tail(rows), y)

\* the share as a fraction: the factor 100 left out
ShareCell_fraction(sales, total_sales) ==
    IF IsNaN(sales) THEN NaN
    ELSE IF total_sales = 0 THEN (IF sales.v = 0 THEN NaN ELSE Inf)
    ELSE Num((sales.v * PctScale) \div total_sales)

\* (sales / total_sales) * 100 on a pandas column: 0/0 is NaN
ShareCell(sales, total_sales) ==
    IF IsNaN(sales) THEN NaN
    ELSE IF total_sales = 0 THEN (IF sales.v = 0 THEN NaN ELSE Inf)
    ELSE Num((sales.v * One) \div total_sales)

\* share = (sales / total_sales * 100) if total_sales > 0 else 0
ChartShareCell(sales, total_sales) ==
    IF total_sales > 0
    THEN (IF IsNaN(sales) THEN NaN ELSE Num((sales.v * One) \div total_sales))
    ELSE Num(0)

\* the year labels in the order of the table's columns
years_unsorted(columns) == columns

\* years = [int(col.split(' ')[0]) for col in df.columns if 'Sales' in col]
\* years.sort()
years_sorted(columns) == SortedSeq(SeqRange(columns))

\* (prev_year, curr_year) of each pass of the loop, in loop order
year_pairs(columns) ==
    LET years == years_sorted(columns)
    IN  [i \in 1..(Len(years) - 1) |-> <<years[i], years[i + 1]>>]

\* adds 'Growth <prev>-<curr> (%)' for each two consecutive years; columns
\* are the table's '<year> Sales' columns in table order
calculate_yoy_growth(rows, columns) ==
    LET pairs == SeqRange(year_pairs(columns))
    IN  [i \in DOMAIN rows |->
            [maker  |-> rows[i].maker,
             sales  |-> rows[i].sales,
             cagr   |-> rows[i].cagr,
             growth |-> [yy \in pairs |->
                            GrowthCell(rows[i].sales[yy[2]], rows[i].sales[yy[1]])]]]

\* adds '<year> Market Share (%)' for each year column
calculate_market_share(rows) ==
    LET years == YearColumns(rows)
    IN  [i \in DOMAIN rows |->
            [maker  |-> rows[i].maker,
             sales  |-> rows[i].sales,
             cagr   |-> rows[i].cagr,
             growth |-> rows[i].growth,
             share  |-> [y \in years |->
                            ShareCell(rows[i].sales[y], ColumnSum(rows, y))]]]

(* ------------------------------- charts ------------------------------- *)

\* the value formatted without the notnull test
FormatPct_unguarded(x) ==
    IF x.t = "inf" THEN [label |-> "inf%", v |-> 0]
    ELSE IF IsNA(x) THEN [label |-> "nan%", v |-> 0]
    ELSE [label |-> "%.2f%", v |-> x.v]

\* f"{x:.2f}%" if pd.notnull(x) else "N/A"
FormatPct(x) ==
    IF IsNA(x) THEN [label |-> "N/A", v |-> 0]
    ELSE IF x.t = "inf" THEN [label |-> "inf%", v |-> 0]
    ELSE [label |-> "%.2f%", v |-> x.v]

\* the bars of the CAGR chart: one for every row of result_sorted, which
\* is result_df in the order of one more sort_values on the CAGR column
create_cagr_bar_chart(rows) ==
    { [x |-> rows[i].maker, y |-> rows[i].cagr, text |-> FormatPct(rows[i].cagr)] :
        i \in DOMAIN rows }

\* market_share_data: the share of each maker in each year
create_market_share_chart(rows) ==
    [ym \in YearColumns(rows) \X {rows[i].maker : i \in DOMAIN rows} |->
        LET row == rows[CHOOSE i \in DOMAIN rows : rows[i].maker = ym[2]]
        IN  ChartShareCell(row.sales[ym[1]], ColumnSum(rows, ym[1]))]

(* --------------------------- create_dashboard ------------------------- *)

\* available_years = sorted(df_4w['fiscal_year'].unique())
available_years(df) == {r.fiscal_year : r \in df}

\* all_makers = sorted(df_4w['maker'].unique().tolist())
all_makers(df) == {r.maker : r \in df}

\* the values of the top-N slider tried: its minimum, which leaves a maker
\* out, and its default, which keeps all of them
TopNChoices == {n \in MinTopN..MaxTopN : n = MinTopN \/ n = DefaultTopN}

\* the manufacturer filters tried: the first k makers, k up to MaxSelected
SelectedChoices(df) ==
    { {m \in all_makers(df) : \E i \in 1..k : Makers[i] = m} : k \in 0..MaxSelected }

\* a run that keeps the tables of the run before it, whatever the widgets say
Render_kept(n, sy, ey, sel) ==
    \E out \in get_top_makers_cagr(df_4w, n, sy, ey) :
        LET res == IF sel /= {}
                   THEN SelectSeq(out.result_df, LAMBDA r : r.maker \in sel)
                   ELSE out.result_df
            first == cagr_calls = {}
        IN  /\ top_n' = n
            /\ start_year' = sy
            /\ end_year' = ey
            /\ selected_makers' = sel
            /\ top_makers' = IF first THEN out.top_n_makers ELSE top_makers
            /\ result_df' = IF first THEN res ELSE result_df
            /\ cagr_calls' = {ey - sy : i \in DOMAIN out.result_df}
            /\ UNCHANGED <<df_4w, cagr_args, cagr_ret, ms_sales, ms_out>>
            /\ UNCHANGED chg_vars
            /\ UNCHANGED st_vars
            /\ UNCHANGED pure_vars
            /\ UNCHANGED hub_vars

\* one run of the script from the widget values on
Render(n, sy, ey, sel) ==
    \E out \in get_top_makers_cagr(df_4w, n, sy, ey) :
        LET res == IF sel /= {}
                   THEN SelectSeq(out.result_df, LAMBDA r : r.maker \in sel)
                   ELSE out.result_df
        IN  /\ top_n' = n
            /\ start_year' = sy
            /\ end_year' = ey
            /\ selected_makers' = sel
            /\ top_makers' = out.top_n_makers
            /\ result_df' = res
            /\ cagr_calls' = {ey - sy : i \in DOMAIN out.result_df}
            /\ UNCHANGED <<df_4w, cagr_args, cagr_ret, ms_sales, ms_out>>
            /\ UNCHANGED chg_vars
            /\ UNCHANGED st_vars
            /\ UNCHANGED pure_vars
            /\ UNCHANGED hub_vars

\* the script has run: every table of the family has makers, and the
\* period count of the run is on record
Rendered == cagr_calls /= {}

\* what the run shows, computed from result_df: the detailed table and the charts
result_columns ==
    pivot_columns(sales_by_maker_year(df_4w), top_makers, start_year, end_year)
detailed_df ==
    calculate_market_share(calculate_yoy_growth(result_df, result_columns))
cagr_chart == create_cagr_bar_chart(result_df)

\* f"{int(x):,}" if pd.notnull(x) else "N/A"
FormatSales(x) ==
    IF IsNA(x) THEN [label |-> "N/A", v |-> 0] ELSE [label |-> "%d", v |-> x.v]

\* the percentage columns shown as they are, missing or not
display_df_of_unguarded(rows) ==
    [i \in DOMAIN rows |->
        [maker |-> rows[i].maker,
         sales |-> [y \in DOMAIN rows[i].sales |-> FormatSales(rows[i].sales[y])],
         cagr |-> FormatPct_unguarded(rows[i].cagr),
         growth |-> [yy \in DOMAIN rows[i].growth |->
                        FormatPct_unguarded(rows[i].growth[yy])],
         share |-> [y \in DOMAIN rows[i].share |->
                       FormatPct_unguarded(rows[i].share[y])]]]

\* display_df: the detailed table with its sales and percentage columns
\* formatted as text
display_df_of(rows) ==
    [i \in DOMAIN rows |->
        [maker |-> rows[i].maker,
         sales |-> [y \in DOMAIN rows[i].sales |-> FormatSales(rows[i].sales[y])],
         cagr |-> FormatPct(rows[i].cagr),
         growth |-> [yy \in DOMAIN rows[i].growth |-> FormatPct(rows[i].growth[yy])],
         share |-> [y \in DOMAIN rows[i].share |-> FormatPct(rows[i].share[y])]]]

display_df == display_df_of(detailed_df)
share_chart == create_market_share_chart(result_df)

DashInit ==
    /\ df_4w \in DataSets
    /\ top_n = DefaultTopN
    /\ start_year = CHOOSE y \in available_years(df_4w) :
                        \A z \in available_years(df_4w) : y <= z
    /\ end_year = CHOOSE y \in available_years(df_4w) :
                        \A z \in available_years(df_4w) : y >= z
    /\ selected_makers = {}
    /\ top_makers = {}
    /\ result_df = <<>>
    /\ cagr_calls = {}
    /\ cagr_args = [start |-> NaN, end |-> NaN, years |-> 0, np |-> TRUE]
    /\ cagr_ret = Pending
    /\ ShareIdle
    /\ ChangeIdle
    /\ StatesIdle
    /\ PureIdle
    /\ HubIdle

\* the page is loaded or refreshed: the script runs with the widget values
Rerun == Render(top_n, start_year, end_year, selected_makers)

\* the user moves a handle of the "Year Range" select_slider
SetYearRange ==
    /\ Rendered
    /\ \E sy, ey \in available_years(df_4w) :
          /\ sy <= ey
          /\ <<sy, ey>> /= <<start_year, end_year>>
          /\ Render(top_n, sy, ey, selected_makers)

\* the user moves the "Number of Top Manufacturers" slider
SetTopN ==
    /\ Rendered
    /\ \E n \in TopNChoices :
          /\ n /= top_n
          /\ Render(n, start_year, end_year, selected_makers)

\* the user changes the manufacturer multiselect
SetSelectedMakers ==
    /\ Rendered
    /\ \E sel \in SelectedChoices(df_4w) :
          /\ sel /= selected_makers
          /\ Render(top_n, start_year, end_year, sel)

DashNext == Rerun \/ SetYearRange \/ SetTopN \/ SetSelectedMakers

SpecDash == DashInit /\ [][DashNext]_vars

(* ------------------- claims on the makers dashboard ------------------- *)

MakerPos(m) == CHOOSE i \in DOMAIN Makers : Makers[i] = m
ResultMakers == {result_df[i].maker : i \in DOMAIN result_df}
Unfiltered == Rendered /\ selected_makers = {}

\* the CAGR of a maker over the selected year range, from the loaded rows
MakerCagr(m) ==
    LET cell(y) ==
            IF \E r \in df_4w : r.maker = m /\ r.fiscal_year = y
            THEN Num(SumSold({r \in df_4w : r.maker = m /\ r.fiscal_year = y}))
            ELSE NaN
    IN  calculate_cagr(cell(start_year), cell(end_year),
                       end_year - start_year, TRUE)

\* the sales of a maker over all fiscal years
MakerTotal(m) == SumSold({r \in df_4w : r.maker = m})

\* C4: after any sequence of year-range slider interactions the CAGR
\* computation is only invoked with end_year strictly greater than
\* start_year: the period count is at least 1.
C4_PeriodCountPositive ==
    \A years \in cagr_calls : years >= 1 /\ end_year > start_year

C6_TopByCagr ==
    Unfiltered =>
        \A m \in all_makers(df_4w) \ ResultMakers :
            ~IsNA(MakerCagr(m)) =>
                \A i \in DOMAIN result_df :
                    /\ ~IsNA(result_df[i].cagr)
                    /\ Geq(result_df[i].cagr, MakerCagr(m))

\* C6 as amended: the result of get_top_makers_cagr holds the N makers with
\* the highest total sales over all fiscal years (all makers when there are
\* at most N): no maker left out has total sales strictly greater than a
\* maker in the result.  The CAGR orders the rows; it does not select them.
C6_TopByTotalSales ==
    Unfiltered =>
        /\ ResultMakers = top_makers
        /\ Cardinality(ResultMakers)
              = Min(top_n, Cardinality(all_makers(df_4w)))
        /\ \A m \in all_makers(df_4w) \ ResultMakers :
              \A k \in ResultMakers : MakerTotal(m) <= MakerTotal(k)

\* a maker is left out although its CAGR is greater than that of a maker
\* that is in the result, which sold more
C6_Witness ==
    /\ Unfiltered
    /\ top_n = MinTopN
    /\ \E m \in all_makers(df_4w) \ ResultMakers :
          \E i \in DOMAIN result_df :
              /\ IsNum(MakerCagr(m))
              /\ IsNum(result_df[i].cagr)
              /\ Gt(MakerCagr(m), result_df[i].cagr)
              /\ MakerTotal(m) < MakerTotal(result_df[i].maker)

\* C7: the rows of the ranking are in order of non-increasing CAGR, and
\* every row with an undefined CAGR comes after every row with a defined one.
C7_RankingOrder ==
    \A i, j \in DOMAIN result_df :
        i < j =>
            /\ (~IsNA(result_df[i].cagr) /\ ~IsNA(result_df[j].cagr))
                  => Geq(result_df[i].cagr, result_df[j].cagr)
            /\ IsNA(result_df[i].cagr) => IsNA(result_df[j].cagr)

\* a ranking with two different defined CAGRs followed by an undefined one
C7_Witness ==
    /\ Unfiltered
    /\ end_year > start_year
    /\ \E i, j, k \in DOMAIN result_df :
          /\ i < j /\ j < k
          /\ IsNum(result_df[i].cagr) /\ IsNum(result_df[j].cagr)
          /\ Gt(result_df[i].cagr, result_df[j].cagr)
          /\ IsNA(result_df[k].cagr)

\* C8: entities with equal CAGR stay in their input order (the order of the
\* pivot index: first-seen first), and a top-N cut between makers with equal
\* totals keeps the ones first in input order.
C8_TiesKeepInputOrder ==
    Unfiltered =>
        /\ \A i, j \in DOMAIN result_df :
              (/\ i < j
               /\ ~IsNA(result_df[i].cagr)
               /\ result_df[i].cagr = result_df[j].cagr)
                  => MakerPos(result_df[i].maker) < MakerPos(result_df[j].maker)
        /\ \A m \in all_makers(df_4w) \ ResultMakers :
              \A k \in ResultMakers :
                  MakerTotal(m) = MakerTotal(k) => MakerPos(k) < MakerPos(m)

\* the makers of the result without a row for the start year
NoStartMakers ==
    {m \in ResultMakers :
        ~\E r \in df_4w : r.maker = m /\ r.fiscal_year = start_year}

\* C15: an entity without a record for the start year has the undefined
\* CAGR, shown as "N/A" in the detailed table and on its bar, and no
\* exception is raised; it is never shown as a numeric growth rate.
C15_MissingStartShownAsNA ==
    Rendered =>
        \A i \in DOMAIN result_df :
            result_df[i].maker \in NoStartMakers
                => /\ IsNA(result_df[i].cagr)
                   /\ display_df[i].maker = result_df[i].maker
                   /\ display_df[i].cagr.label = "N/A"
                   /\ display_df[i].sales[start_year].label = "N/A"
                   /\ \A b \in cagr_chart :
                         b.x = result_df[i].maker => b.text.label = "N/A"

\* a maker that entered after the start year is in the detailed table
C15_Witness ==
    /\ Rendered
    /\ start_year < end_year
    /\ \E i \in DOMAIN result_df :
          /\ result_df[i].maker \in NoStartMakers
          /\ IsNum(result_df[i].sales[end_year])
          /\ display_df[i].cagr.label = "N/A"

MaxRows == 3

\* a period: any one stands for the '<year> Sales' column of the call
SharePeriod == LastYear

\* the worked example: sales A: 300, B: 700 in one period
ExampleSales == <<Num(300), Num(700)>>

ShareCells == {Num(x) : x \in 0..MaxSales} \cup {NaN}

ShareColumns ==
    UNION {[1..n -> ShareCells] : n \in 1..Min(MaxRows, Len(Makers))}
        \cup {ExampleSales}

\* the result table with the one sales column col
TableOf(col) ==
    [i \in DOMAIN col |->
        [maker |-> Makers[i], sales |-> [y \in {SharePeriod} |-> col[i]],
         cagr |-> NaN, growth |-> <<>>]]

ShareInit ==
    /\ ms_sales \in ShareColumns
    /\ ms_out = Pending
    /\ DashIdle
    /\ ChangeIdle
    /\ StatesIdle
    /\ PureIdle
    /\ HubIdle
    /\ cagr_args = [start |-> NaN, end |-> NaN, years |-> 0, np |-> TRUE]
    /\ cagr_ret = Pending

\* calculate_market_share and create_market_share_chart on the table
ShareCall ==
    /\ ms_out = Pending
    /\ LET rows == TableOf(ms_sales)
           df   == calculate_market_share(rows)
           ms   == create_market_share_chart(rows)
       IN  ms_out' = [t |-> "shares",
                      table |-> [i \in DOMAIN df |-> df[i].share[SharePeriod]],
                      chart |-> [i \in DOMAIN rows |->
                                    ms[<<SharePeriod, rows[i].maker>>]]]
    /\ UNCHANGED ms_sales
    /\ UNCHANGED dash_vars
    /\ UNCHANGED cagr_vars
    /\ UNCHANGED chg_vars
    /\ UNCHANGED st_vars
    /\ UNCHANGED pure_vars
    /\ UNCHANGED hub_vars

ShareNext == ShareCall

SpecShare == ShareInit /\ [][ShareNext]_vars

(* ------------------ claims on the market share functions -------------- *)

Shared == ms_out /= Pending

RECURSIVE SumCells(_)
SumCells(col) ==
    IF col = <<>> THEN 0
    ELSE (IF IsNum(Head(col)) THEN Head(col).v ELSE 0) + SumCells(Tail(col))

Defined(col) == {i \in DOMAIN col : IsNum(col[i])}

\* the shares of col add up to 100 percent, each one cut to the fixed-point
\* precision, and exactly so when every share is a whole number of units
SumsTo100(shares) ==
    /\ SumCells(shares) <= One
    /\ SumCells(shares) > One - Cardinality(Defined(shares))
    /\ \A i \in DOMAIN shares :
          IsNum(ms_sales[i])
              => /\ IsNum(shares[i])
                 /\ shares[i].v * SumCells(ms_sales) <= ms_sales[i].v * One
                 /\ (shares[i].v + 1) * SumCells(ms_sales) > ms_sales[i].v * One

\* C9: for every period whose total sales over the entities considered is
\* > 0 the market shares of the period sum to 100 percent; sales A: 300,
\* B: 700 give A: 30, B: 70.
C9_SharesSumTo100 ==
    (Shared /\ SumCells(ms_sales) > 0)
        => /\ SumsTo100(ms_out.table)
           /\ SumsTo100(ms_out.chart)
           /\ ms_sales = ExampleSales
                => /\ ms_out.table = <<Num(30 * PctScale), Num(70 * PctScale)>>
                   /\ ms_out.chart = <<Num(30 * PctScale), Num(70 * PctScale)>>

\* the worked example has been computed
C9_Witness ==
    /\ Shared
    /\ ms_sales = ExampleSales
    /\ ms_out.table = <<Num(30 * PctScale), Num(70 * PctScale)>>

\* C10: when the total sales of a period is 0, the market share of every
\* entity for the period is reported as 0, never NaN or infinity.
C10_ZeroTotalGivesZeroShares ==
    (Shared /\ SumCells(ms_sales) = 0)
        => /\ \A i \in DOMAIN ms_sales : ms_out.table[i] = Num(0)
           /\ \A i \in DOMAIN ms_sales : ms_out.chart[i] = Num(0)

(* -------------------- period-over-period changes --------------------- *)

\* largest sales value of a cell of a period-over-period table
MaxChangeSales == 2
\* the columns of the maker pivot compared in the detailed comparison tables
FY2023 == 2023
FY2024 == 2024

\* the periods of a table: fiscal years, or quarters ('2022-Q1', ...) named
\* by their position in time, which is the order their labels sort in
Periods == FirstYear..LastYear

\* the pass for a maker without a guard on the previous sales
QoqChange_unguarded(prev_sales, curr_sales) ==
    IF prev_sales = 0 THEN (IF curr_sales = 0 THEN NaN ELSE Inf)
    ELSE Num(((curr_sales - prev_sales) * One) \div prev_sales)

\* pct_change of one pass of the quarter-over-quarter loop
QoqChange(prev_sales, curr_sales) ==
    IF prev_sales > 0
    THEN Num(((curr_sales - prev_sales) * One) \div prev_sales)
    ELSE IF curr_sales > 0 THEN Inf ELSE Num(0)

\* maker_data in the order of its rows
SortByQuarter_unsorted(maker_rows) == maker_rows

\* maker_data = quarterly_sales[...].sort_values('year_quarter'): a maker has
\* one row for a quarter, so no two keys are equal
SortByQuarter(maker_rows) ==
    LET quarters == SortedSeq({maker_rows[i].period : i \in DOMAIN maker_rows})
    IN  [j \in DOMAIN quarters |->
            maker_rows[CHOOSE i \in DOMAIN maker_rows :
                           maker_rows[i].period = quarters[j]]]

\* the qoq_changes entries of one maker
qoq_changes(maker_rows) ==
    LET maker_data == SortByQuarter(maker_rows)
    IN  IF Len(maker_data) < 2 THEN <<>>
        ELSE [k \in 1..(Len(maker_data) - 1) |->
                 [from |-> maker_data[k].period,
                  to |-> maker_data[k + 1].period,
                  from_sales |-> maker_data[k].sold,
                  to_sales |-> maker_data[k + 1].sold,
                  pct_change |-> QoqChange(maker_data[k].sold.v,
                                           maker_data[k + 1].sold.v)]]

\* format_pct_change: "up" and "down" stand for the two arrow signs
format_pct_change(val) ==
    IF IsNA(val) \/ val.t = "inf" THEN [label |-> "N/A", v |-> 0]
    ELSE IF val.v > 0 THEN [label |-> "up %.2f%", v |-> val.v]
    ELSE IF val.v < 0 THEN [label |-> "down %.2f%", v |-> val.v]
    ELSE [label |-> "0.00%", v |-> 0]

\* the cells of a one-maker table as a function of the year
CellOf(table, y) ==
    table[CHOOSE i \in DOMAIN table : table[i].period = y].sold

\* the growth entries calculate_yoy_growth adds to the row of one maker
yoy_growth_entries(table) ==
    LET columns == [i \in DOMAIN table |-> table[i].period]
        rows == <<[maker |-> Makers[1],
                   sales |-> [y \in SeqRange(columns) |-> CellOf(table, y)],
                   cagr |-> NaN]>>
        df == calculate_yoy_growth(rows, columns)
        pairs == year_pairs(columns)
    IN  [k \in DOMAIN pairs |->
            [from |-> pairs[k][1],
             to |-> pairs[k][2],
             from_sales |-> CellOf(table, pairs[k][1]),
             to_sales |-> CellOf(table, pairs[k][2]),
             pct_change |-> df[1].growth[pairs[k]]]]

\* a cell after fillna(0)
FillNa0(x) == IF IsNA(x) THEN Num(0) ELSE x

\* maker_pivot['YoY Growth (%)'] = np.where(FY 2023 > 0, ..., np.where(FY 2024
\* > 0, inf, 0)) on the pivot filled with 0, when both columns exist
yoy_pivot_entries(table) ==
    LET columns == {table[i].period : i \in DOMAIN table}
    IN  IF FY2023 \in columns /\ FY2024 \in columns
        THEN LET prev == FillNa0(CellOf(table, FY2023))
                 curr == FillNa0(CellOf(table, FY2024))
             IN  <<[from |-> FY2023, to |-> FY2024,
                    from_sales |-> prev, to_sales |-> curr,
                    pct_change |->
                        IF prev.v > 0
                        THEN Num(((curr.v - prev.v) * One) \div prev.v)
                        ELSE IF curr.v > 0 THEN Inf ELSE Num(0)]>>
        ELSE <<>>

\* a text cell: the growth rate as calculate_growth_rate words it
Str(label, x) == [t |-> "str", label |-> label, v |-> x]

\* calculate_growth_rate(previous, current); "oo%" stands for the infinity
\* sign followed by the percent sign
calculate_growth_rate(previous, current) ==
    IF IsNum(previous) /\ previous.v = 0
    THEN (IF IsNum(current) /\ current.v > 0 THEN Str("oo%", 0) ELSE Str("0%", 0))
    ELSE IF IsNA(previous) \/ IsNA(current) THEN Str("nan%", 0)
    ELSE Str("%.1f%", ((current.v - previous.v) * One) \div previous.v)

\* the growth columns of yearly_pivot for one maker: one for each two
\* consecutive selected years
growth_rate_entries(table) ==
    LET sorted_years == SortedSeq({table[i].period : i \in DOMAIN table})
    IN  [k \in 1..(Len(sorted_years) - 1) |->
            [from |-> sorted_years[k],
             to |-> sorted_years[k + 1],
             from_sales |-> CellOf(table, sorted_years[k]),
             to_sales |-> CellOf(table, sorted_years[k + 1]),
             pct_change |-> calculate_growth_rate(
                                CellOf(table, sorted_years[k]),
                                CellOf(table, sorted_years[k + 1]))]]

\* Styler.format('{:+.1f}%') on a float cell
StyleFormatPct(x) ==
    IF x.t = "inf" THEN [label |-> "+inf%", v |-> 0]
    ELSE IF IsNA(x) THEN [label |-> "+nan%", v |-> 0]
    ELSE [label |-> "%+.1f%", v |-> x.v]

\* the four computations and what each shows for a value
ChangePaths == {"qoq", "yoy_growth", "yoy_pivot", "growth_rate"}

ChangeEntries(path, table) ==
    CASE path = "qoq" -> qoq_changes(table)
      [] path = "yoy_growth" -> yoy_growth_entries(table)
      [] path = "yoy_pivot" -> yoy_pivot_entries(table)
      [] path = "growth_rate" -> growth_rate_entries(table)

ChangeDisplay(path, val) ==
    CASE path = "qoq" -> format_pct_change(val)
      [] path = "yoy_growth" -> FormatPct(val)
      [] path = "yoy_pivot" -> StyleFormatPct(val)
      [] path = "growth_rate" -> [label |-> val.label, v |-> val.v]

\* a cell of a pivot: the units sold, or NaN where the maker has no row
ChangeCells == {NaN} \cup {Num(x) : x \in 0..MaxChangeSales}

\* the orders the rows or columns of the periods P can come in
Orders(P) ==
    {q \in [1..Cardinality(P) -> P] :
        \A i, j \in 1..Cardinality(P) : i /= j => q[i] /= q[j]}

\* one maker's table: a cell for each period of the table, in any order
ChangeTables ==
    UNION { UNION { { [i \in DOMAIN q |-> [period |-> q[i], sold |-> c[i]]] :
                        c \in [DOMAIN q -> ChangeCells] } :
                    q \in Orders(P) } :
            P \in SUBSET Periods }

\* quarterly_sales is a groupby sum: it has a row only where it has a value
NoMissing(table) == \A i \in DOMAIN table : IsNum(table[i].sold)

ChangeInit ==
    /\ chg_in \in {x \in [path : ChangePaths, table : ChangeTables] :
                      x.path = "qoq" => NoMissing(x.table)}
    /\ chg_out = Pending
    /\ DashIdle
    /\ ShareIdle
    /\ StatesIdle
    /\ PureIdle
    /\ HubIdle
    /\ cagr_args = [start |-> NaN, end |-> NaN, years |-> 0, np |-> TRUE]
    /\ cagr_ret = Pending

\* the computation of chg_in.path runs and its result is displayed
ChangeCall(path) ==
    /\ chg_out = Pending
    /\ chg_in.path = path
    /\ LET entries == ChangeEntries(path, chg_in.table)
       IN  chg_out' = [entries |-> entries,
                       display |-> [k \in DOMAIN entries |->
                                       ChangeDisplay(path, entries[k].pct_change)]]
    /\ UNCHANGED chg_in
    /\ UNCHANGED dash_vars
    /\ UNCHANGED cagr_vars
    /\ UNCHANGED ms_vars
    /\ UNCHANGED st_vars
    /\ UNCHANGED pure_vars
    /\ UNCHANGED hub_vars

\* the quarter-over-quarter loop of the quarterly trends page
QoqChanges == ChangeCall("qoq")
\* calculate_yoy_growth and the detailed performance table
YoyGrowth == ChangeCall("yoy_growth")
\* the YoY Growth column of the detailed comparison tables
YoyPivot == ChangeCall("yoy_pivot")
\* the growth columns of the year-over-year comparison table
GrowthRates == ChangeCall("growth_rate")

ChangeNext == QoqChanges \/ YoyGrowth \/ YoyPivot \/ GrowthRates

SpecChange == ChangeInit /\ [][ChangeNext]_vars

(* --------------- claims on the period-over-period changes ------------- *)

Changed == chg_out /= Pending

\* the entries whose 'from' value is 0 and whose 'to' value is 0
ZeroToZero ==
    {k \in DOMAIN chg_out.entries :
        /\ chg_out.entries[k].from_sales = Num(0)
        /\ chg_out.entries[k].to_sales = Num(0)}

\* the entries whose 'from' value is 0 and whose 'to' value is > 0
ZeroToPositive ==
    {k \in DOMAIN chg_out.entries :
        /\ chg_out.entries[k].from_sales = Num(0)
        /\ IsNum(chg_out.entries[k].to_sales)
        /\ chg_out.entries[k].to_sales.v > 0}

C12_InfinityTaggedNeverShown ==
    Changed =>
        \A k \in ZeroToPositive :
            /\ chg_out.entries[k].pct_change.t /= "inf"
            /\ chg_out.display[k].label \notin {"inf%", "+inf%"}

\* the periods of the table, and those the maker has a value in
TablePeriods == {chg_in.table[i].period : i \in DOMAIN chg_in.table}
ValuePeriods ==
    {chg_in.table[i].period :
        i \in {j \in DOMAIN chg_in.table : IsNum(chg_in.table[j].sold)}}

\* the consecutive pairs (p_i, p_i+1) of the periods S, in increasing order
ConsecutivePairs(S) ==
    LET ps == SortedSeq(S)
    IN  [k \in 1..(Len(ps) - 1) |-> <<ps[k], ps[k + 1]>>]

\* the (from, to) of the entries, in the order they were produced
EntryPairs ==
    [k \in DOMAIN chg_out.entries |->
        <<chg_out.entries[k].from, chg_out.entries[k].to>>]

\* C13: for an entity with values at periods p1 < ... < pk the computation
\* produces exactly k-1 entries, one for each consecutive pair, in
\* increasing period order, whatever the order of the input.
C13_OneEntryPerConsecutivePair ==
    (Changed /\ chg_in.path \in {"qoq", "yoy_growth"})
        => EntryPairs = ConsecutivePairs(ValuePeriods)

\* C13 as the code has it: the entries are the consecutive pairs of the
\* periods of the table (k-1 for k periods), in increasing order whatever
\* the order of the rows or columns; in the quarter-over-quarter loop these
\* are the quarters the maker has a row for, in calculate_yoy_growth the
\* year columns of the whole table, values of the maker or not.
C13_OneEntryPerPairOfTablePeriods ==
    (Changed /\ chg_in.path \in {"qoq", "yoy_growth"})
        => /\ EntryPairs = ConsecutivePairs(TablePeriods)
           /\ chg_in.path = "qoq" => TablePeriods = ValuePeriods

\* a maker's three quarters came in decreasing order and gave two entries
C13_Witness ==
    /\ Changed
    /\ chg_in.path = "qoq"
    /\ Len(chg_in.table) = 3
    /\ chg_in.table[1].period > chg_in.table[2].period
    /\ chg_in.table[2].period > chg_in.table[3].period
    /\ Len(chg_out.entries) = 2

(* ------- states dashboard: load_data, calculate_cagrs and main -------- *)

\* largest sales figure np.random.randint draws for the simulated dataset
MaxSimulated == 2
\* st.sidebar.slider("Select Number of Top States to Display", 5, 20, 10)
MinTopStates == 5
MaxTopStates == 20
DefaultTopStates == 10

States == <<"S1", "S2", "S3">>

\* a DataFrame: its column names and its rows
Table(columns, rows) == [t |-> "table", columns |-> columns, rows |-> rows]

\* a row of state_sales as load_data aggregates it from the CSV files
StateRow(s, y, ev, total) ==
    [state |-> s, fiscal_year |-> y,
     electric_vehicles_sold |-> ev, total_vehicles_sold |-> total]

\* a state with sales in every fiscal year, x electric vehicles in the last
FullState(s, x) ==
    {StateRow(s, FirstYear, 1, 2), StateRow(s, FirstYear + 1, 1, 2),
     StateRow(s, LastYear, x, x + 1)}
\* a state without a row for the first fiscal year
NoStartState(s) == {StateRow(s, FirstYear + 1, 1, 2), StateRow(s, LastYear, 1, 2)}
\* a state without a row for the last fiscal year
NoEndState(s) == {StateRow(s, FirstYear, 1, 2), StateRow(s, FirstYear + 1, 1, 2)}
\* a state that sold nothing in the first fiscal year
ZeroStartState(s) ==
    {StateRow(s, FirstYear, 0, 0), StateRow(s, FirstYear + 1, 1, 2),
     StateRow(s, LastYear, 1, 2)}

StateProfiles(s) ==
    {FullState(s, x) : x \in 1..MaxEndSales}
        \cup {NoStartState(s), NoEndState(s), ZeroStartState(s)}

RECURSIVE StateRowsFrom(_)
StateRowsFrom(i) ==
    IF i > Len(States) THEN {{}}
    ELSE {p \cup rest : p \in StateProfiles(States[i]), rest \in StateRowsFrom(i + 1)}

\* the aggregated CSV data: every fiscal year of the default range has a row
StateTables ==
    {Table({"state", "fiscal_year", "electric_vehicles_sold", "total_vehicles_sold"},
           rows) :
        rows \in {x \in StateRowsFrom(1) :
                     \A y \in {FirstYear, LastYear} : \E r \in x : r.fiscal_year = y}}

\* the simulated dataset built when the files cannot be read: random sales,
\* and the year in a column named "year"
SimulatedTables ==
    {Table({"state", "year", "total_vehicles_sold", "electric_vehicles_sold"},
           {[state |-> "State_1", year |-> y,
             total_vehicles_sold |-> ev[y] + 1,
             electric_vehicles_sold |-> ev[y]] : y \in FirstYear..LastYear}) :
        ev \in [FirstYear..LastYear -> 1..MaxSimulated]}

\* what the body of load_data can return for the files on disk
load_data(file) ==
    IF file.kind = "csv" THEN {file.table} ELSE SimulatedTables

\* load_data without a cache: its body runs at every call
cached_load_data_rerun(cache, fresh) == fresh

\* @st.cache_data: the body runs when the cache is empty, later calls get
\* the cached value
cached_load_data(cache, fresh) == IF cache.t = "None" THEN fresh ELSE cache

\* the objects of a run: heap[i] is the table of object i, and a new object
\* gets the next number
Alloc(heap, table) == Append(heap, table)

\* Series.sum() of a column over a set of rows
RECURSIVE SumOf(_, _)
SumOf(S, col) ==
    IF S = {} THEN 0
    ELSE LET r == CHOOSE x \in S : TRUE
         IN  r[col] + SumOf(S \ {r}, col)

\* the row with filtered_data["none_ev_sales"] added
WithNonEv(r) ==
    [x \in (DOMAIN r) \cup {"none_ev_sales"} |->
        IF x = "none_ev_sales"
        THEN r.total_vehicles_sold - r.electric_vehicles_sold
        ELSE r[x]]

\* ((end / start) ** (1 / years_diff) - 1) * 100 on pandas columns and a
\* numpy year difference: x/0 is inf, 0/0 and a missing value give NaN
CagrCell(start, end, years_diff) ==
    IF IsNaN(start) \/ IsNaN(end) THEN NaN
    ELSE IF start.v = 0 THEN (IF end.v = 0 THEN NaN ELSE Inf)
    ELSE IF years_diff = 0 THEN GrowthPctInfExp(end.v, start.v)
    ELSE GrowthPct(end.v, start.v, years_diff, TRUE)

\* every pivot row is kept: no dropna and no test of the start value
KeepRow_all(r) == TRUE

\* pivot_data.dropna(subset=[sales_<start>, sales_<end>]) and
\* pivot_data[pivot_data[sales_<start>] > 0]
KeepRow(r) == IsNum(r.sales_start) /\ IsNum(r.sales_end) /\ r.sales_start.v > 0

\* calculate_cagrs on the object state_sales of the heap: the heap after the
\* call and the pivot_data returned, or the KeyError of a missing year column
calculate_cagrs(heap, state_sales, sy, ey, sales_type) ==
    LET filtered_data == Len(heap) + 1
        heap1 == Alloc(heap,
                       Table(heap[state_sales].columns,
                             {r \in heap[state_sales].rows :
                                 r.fiscal_year \in {sy, ey}}))
        heap2 == IF sales_type = "non_ev"
                 THEN [heap1 EXCEPT ![filtered_data] =
                          Table(@.columns \cup {"none_ev_sales"},
                                {WithNonEv(r) : r \in @.rows})]
                 ELSE heap1
        sales_column == CASE sales_type = "total" -> "total_vehicles_sold"
                          [] sales_type = "ev" -> "electric_vehicles_sold"
                          [] sales_type = "non_ev" -> "none_ev_sales"
        data == heap2[filtered_data].rows
        columns == {r.fiscal_year : r \in data}
        index == SelectSeq(States, LAMBDA s : \E r \in data : r.state = s)
        cell(s, y) ==
            IF \E r \in data : r.state = s /\ r.fiscal_year = y
            THEN Num(SumOf({r \in data : r.state = s /\ r.fiscal_year = y},
                           sales_column))
            ELSE NaN
        pivot_data ==
            [i \in DOMAIN index |->
                [state |-> index[i],
                 sales_start |-> cell(index[i], sy),
                 sales_end |-> cell(index[i], ey),
                 CAGR |-> CagrCell(cell(index[i], sy),
                                   cell(index[i], ey),
                                   ey - sy)]]
    IN  IF {sy, ey} \subseteq columns
        THEN [t |-> "ok", heap |-> heap2,
              pivot_data |-> SelectSeq(pivot_data, KeepRow)]
        ELSE [t |-> "KeyError", heap |-> heap2, pivot_data |-> <<>>]

\* total_cagr.sort_values("CAGR", ascending=False).head(top_n): every
\* outcome of the sort
top_states(pivot_data, n) ==
    {HeadN(sorted, n) :
        sorted \in SortValuesDesc(pivot_data, ColumnOf(pivot_data, "CAGR"))}

\* one run of main on the value load_data handed out.  Object 1 is the
\* cache entry, object 2 the copy of it st.cache_data returns
main(loaded, sy, ey, selected_states, n) ==
    LET state_sales == 2
        heap1 == Alloc(<<loaded>>, loaded)
        failed(heap) ==
            [t |-> "KeyError", cache |-> heap[1], state_sales |-> loaded,
             total_cagr |-> <<>>, ev_cagr |-> <<>>, non_ev_cagr |-> <<>>]
    IN  IF "fiscal_year" \notin heap1[state_sales].columns
        THEN failed(heap1)
        ELSE
          LET filtered_state_sales ==
                  IF selected_states /= {} THEN Len(heap1) + 1 ELSE state_sales
              heap2 ==
                  IF selected_states /= {}
                  THEN Alloc(heap1,
                             Table(heap1[state_sales].columns,
                                   {r \in heap1[state_sales].rows :
                                       r.state \in selected_states}))
                  ELSE heap1
              total == calculate_cagrs(heap2, filtered_state_sales,
                                       sy, ey, "total")
              ev == calculate_cagrs(total.heap, filtered_state_sales,
                                    sy, ey, "ev")
              non_ev == calculate_cagrs(ev.heap, filtered_state_sales,
                                        sy, ey, "non_ev")
          IN  IF total.t /= "ok" THEN failed(total.heap)
              ELSE IF ev.t /= "ok" THEN failed(ev.heap)
              ELSE IF non_ev.t /= "ok" THEN failed(non_ev.heap)
              ELSE [t |-> "ok", cache |-> non_ev.heap[1],
                    state_sales |-> loaded,
                    total_cagr |-> total.pivot_data,
                    ev_cagr |-> ev.pivot_data,
                    non_ev_cagr |-> non_ev.pivot_data]

all_states(table) == {r.state : r \in table.rows}

\* the values of the top-N slider tried: its minimum and its default
TopStatesChoices ==
    {n \in MinTopStates..MaxTopStates : n = MinTopStates \/ n = DefaultTopStates}

\* the state filters tried: the first k states, k up to MaxSelected
SelectedStatesChoices(table) ==
    { {x \in all_states(table) : \E i \in 1..k : States[i] = x} :
        k \in 0..MaxSelected }

\* the script runs from the widget values on
RenderStates(sy, ey, sel, n) ==
    \E fresh \in load_data(st_file) :
        LET loaded == cached_load_data(st_cache, fresh)
            run == main(loaded, sy, ey, sel, n)
        IN  /\ st_cache' = run.cache
            /\ st_first' = IF st_first.t = "None" THEN loaded ELSE st_first
            /\ st_out' = run
            /\ st_start' = sy
            /\ st_end' = ey
            /\ st_selected' = sel
            /\ st_top_n' = n
            /\ UNCHANGED st_file
            /\ UNCHANGED dash_vars
            /\ UNCHANGED cagr_vars
            /\ UNCHANGED ms_vars
            /\ UNCHANGED chg_vars
            /\ UNCHANGED pure_vars
            /\ UNCHANGED hub_vars

\* the last run got as far as drawing the widgets
WidgetsDrawn == st_out /= Pending /\ "fiscal_year" \in st_cache.columns

StatesInit ==
    /\ st_file \in {[kind |-> "csv", table |-> x] : x \in StateTables}
                      \cup {[kind |-> "unreadable", table |-> PyNone]}
    /\ st_cache = PyNone
    /\ st_first = PyNone
    /\ st_start = FirstYear
    /\ st_end = LastYear
    /\ st_selected = {}
    /\ st_top_n = DefaultTopStates
    /\ st_out = Pending
    /\ DashIdle
    /\ ShareIdle
    /\ ChangeIdle
    /\ PureIdle
    /\ HubIdle
    /\ cagr_args = [start |-> NaN, end |-> NaN, years |-> 0, np |-> TRUE]
    /\ cagr_ret = Pending

\* the page is loaded or refreshed
StatesRerun == RenderStates(st_start, st_end, st_selected, st_top_n)

\* the user moves a handle of the fiscal year range slider
SetStatesYearRange ==
    /\ WidgetsDrawn
    /\ \E sy, ey \in available_years(st_cache.rows) :
          /\ sy <= ey
          /\ <<sy, ey>> /= <<st_start, st_end>>
          /\ RenderStates(sy, ey, st_selected, st_top_n)

\* the user changes the state filter
SetSelectedStates ==
    /\ WidgetsDrawn
    /\ \E sel \in SelectedStatesChoices(st_cache) :
          /\ sel /= st_selected
          /\ RenderStates(st_start, st_end, sel, st_top_n)

\* the user moves the number of top states slider
SetTopStates ==
    /\ WidgetsDrawn
    /\ \E n \in TopStatesChoices :
          /\ n /= st_top_n
          /\ RenderStates(st_start, st_end, st_selected, n)

StatesNext ==
    StatesRerun \/ SetStatesYearRange \/ SetSelectedStates \/ SetTopStates

SpecStates == StatesInit /\ [][StatesNext]_vars

(* -------------------- claims on the states dashboard ------------------ *)

StatesRendered == st_out /= Pending

\* the rows of the run's input for a state and a year
RowsOf(s, y) == {r \in st_cache.rows : r.state = s /\ r.fiscal_year = y}

\* the states left after the state filter
FilteredStates ==
    IF st_selected /= {} THEN st_selected ELSE all_states(st_cache)

\* the states of a result table
ResultStates(pivot_data) == {pivot_data[i].state : i \in DOMAIN pivot_data}

\* C14: when the period requested for a comparison is missing for an
\* entity, or absent for all entities left after filtering, that entity is
\* excluded and the computation still completes for the remaining entities:
\* it raises no error and does not treat the missing period as 0.
C14_MissingPeriodExcluded ==
    (StatesRendered /\ st_file.kind = "csv")
        => /\ st_out.t = "ok"
           /\ \A s \in FilteredStates :
                 (RowsOf(s, st_start) = {} \/ RowsOf(s, st_end) = {})
                     => s \notin ResultStates(st_out.total_cagr)
           /\ \A s \in FilteredStates :
                 (/\ RowsOf(s, st_start) /= {}
                  /\ RowsOf(s, st_end) /= {}
                  /\ SumOf(RowsOf(s, st_start), "total_vehicles_sold") > 0)
                     => s \in ResultStates(st_out.total_cagr)

\* C20: after any sequence of renders and filter interactions the cached
\* dataset load_data hands out equals the dataset as first loaded: no
\* render writes to it.
C20_CachedDatasetUnchanged ==
    StatesRendered
        => /\ st_cache = st_first
           /\ st_out.state_sales = st_first

\* a run that added the non-EV column to its filtered data has been followed
\* by a run with other filter values
C20_Witness ==
    /\ StatesRendered
    /\ st_out.t = "ok"
    /\ st_out.non_ev_cagr /= <<>>
    /\ st_selected /= {}
    /\ <<st_start, st_end>> /= <<FirstYear, LastYear>>
    /\ st_cache = st_first

\* C25: when loading the sales file fails, load_data returns a simulated
\* table that has every column main and calculate_cagrs read (state,
\* fiscal_year, total_vehicles_sold, electric_vehicles_sold), and the run of
\* main on it computes the CAGRs without error.
C25_SimulatedDataHasTheColumnsRead ==
    (StatesRendered /\ st_file.kind /= "csv")
        => /\ {"state", "fiscal_year", "total_vehicles_sold",
               "electric_vehicles_sold"} \subseteq st_out.state_sales.columns
           /\ st_out.t = "ok"

(* ------------- metric functions called on a table object -------------- *)

\* largest sales figure of a table handed to a metric function
MaxPureSales == 2
\* projection_year=2030
ProjectionYear == 2030

\* calculate_yoy_growth on the object arg of the heap (its result_df): df is a copy,
\* the growth columns are added to df, and df is returned
calculate_yoy_growth_df(heap, arg) ==
    LET df == Len(heap) + 1
        heap1 == Alloc(heap, heap[arg])
        heap2 == [heap1 EXCEPT ![df] =
                     Table(@.columns, calculate_yoy_growth(@.rows, @.columns))]
    IN  [heap |-> heap2, ret |-> [t |-> "ok", df |-> heap2[df]]]

\* calculate_market_share on the object arg of the heap (its result_df): df is a copy,
\* the share columns are added to df, and df is returned
calculate_market_share_df(heap, arg) ==
    LET df == Len(heap) + 1
        heap1 == Alloc(heap, heap[arg])
        heap2 == [heap1 EXCEPT ![df] =
                     Table(@.columns, calculate_market_share(@.rows))]
    IN  [heap |-> heap2, ret |-> [t |-> "ok", df |-> heap2[df]]]

\* Series.idxmax(): the first row with the largest value
IdxMax(column) ==
    CHOOSE i \in DOMAIN column :
        /\ \A j \in DOMAIN column : column[j] <= column[i]
        /\ \A j \in 1..(i - 1) : column[j] < column[i]

\* Series.idxmin(): the first row with the smallest value
IdxMin(column) ==
    CHOOSE i \in DOMAIN column :
        /\ \A j \in DOMAIN column : column[j] >= column[i]
        /\ \A j \in 1..(i - 1) : column[j] > column[i]

RECURSIVE SeqSum(_)
SeqSum(column) ==
    IF column = <<>> THEN 0 ELSE Head(column) + SeqSum(Tail(column))

\* calculate_kpis on the object monthly_sales of the heap: the column
\* "seasonality_score" is assigned on monthly_sales itself.  Of the record
\* returned, sales_volatility is left out; idxmax of a table without rows
\* raises ValueError.  Ratios to the average are taken as n * x / total
calculate_kpis(heap, monthly_sales) ==
    LET rows == heap[monthly_sales].rows
        sold == [i \in DOMAIN rows |-> rows[i].electric_vehicles_sold]
        n == Len(rows)
        total == SeqSum(sold)
        peak_month_idx == IdxMax(sold)
        low_month_idx == IdxMin(sold)
        peak_sales == sold[peak_month_idx]
        low_sales == sold[low_month_idx]
        score(i) == GrowthCell(Num(sold[i] * n), Num(total))
        scored == [i \in DOMAIN rows |->
                      [month_name |-> rows[i].month_name,
                       electric_vehicles_sold |-> sold[i],
                       seasonality_score |-> score(i)]]
    IN  IF rows = <<>>
        THEN [heap |-> heap, ret |-> [t |-> "ValueError"]]
        ELSE [heap |-> [heap EXCEPT ![monthly_sales] =
                           Table(@.columns \cup {"seasonality_score"}, scored)],
              ret |-> [t |-> "ok",
                       peak_month |-> rows[peak_month_idx].month_name,
                       low_month |-> rows[low_month_idx].month_name,
                       peak_sales |-> peak_sales,
                       low_sales |-> low_sales,
                       average_monthly_sales |-> Num((total * One) \div n),
                       peak_vs_avg_percentage |->
                           GrowthCell(Num(peak_sales * n), Num(total)),
                       low_vs_avg_percentage |->
                           GrowthCell(Num(low_sales * n), Num(total)),
                       peak_to_low_ratio |->
                           IF low_sales > 0
                           THEN Num((peak_sales * One) \div low_sales)
                           ELSE Inf,
                       monthly_seasonality |->
                           [i \in DOMAIN rows |->
                               [month_name |-> rows[i].month_name,
                                seasonality_score |-> score(i)]]]]

\* Series.replace(replace_state_names) on one name; the dict is a set of
\* <<old, new>> pairs
ReplaceName(name, replace_state_names) ==
    IF \E kv \in replace_state_names : kv[1] = name
    THEN (CHOOSE kv \in replace_state_names : kv[1] = name)[2]
    ELSE name

\* plot_ev_penetration_map up to top_state_dict, on the object top_states_df
\* of the heap: with a non-empty replace_state_names the state column is
\* assigned on top_states_df itself.  dict(zip(...)) keeps the last rate of
\* a name
plot_ev_penetration_map(heap, top_states_df, replace_state_names) ==
    LET rows == heap[top_states_df].rows
        replaced == [i \in DOMAIN rows |->
                        [state |-> ReplaceName(rows[i].state, replace_state_names),
                         penetration_rate |-> rows[i].penetration_rate]]
        heap1 == IF replace_state_names /= {}
                 THEN [heap EXCEPT ![top_states_df] = Table(@.columns, replaced)]
                 ELSE heap
        after == heap1[top_states_df].rows
    IN  [heap |-> heap1,
         ret |-> [t |-> "ok",
                  top_state_dict |->
                      {<<after[i].state, after[i].penetration_rate>> :
                          i \in {k \in DOMAIN after :
                                    \A j \in (k + 1)..Len(after) :
                                        after[j].state /= after[k].state}}]]

\* numpy's round(2) of a fraction g given in units of 1/One and truncated;
\* exact says that nothing was cut off.  Halves go to the even neighbour
Round2(g, exact) ==
    LET step == One \div Percent
        lo == (g \div step) * step
        r == g % step
    IN  IF 2 * r < step THEN lo
        ELSE IF 2 * r > step \/ ~exact THEN lo + step
        ELSE IF (lo \div step) % 2 = 0 THEN lo
        ELSE lo + step

\* cagr = ((end_sales / start_sales) ** (1 / n_years) - 1).round(2), a
\* fraction in units of 1/One, for start_sales > 0 and n_years > 0
ProjectionCagr(start_sales, end_sales, n_years) ==
    LET f == RootFix(end_sales, start_sales, n_years)
    IN  Round2(f - One,
               PowInt(f, n_years) * start_sales = end_sales * PowInt(One, n_years))

\* v * (1 + cagr) ** k for a value v and a rate of whole hundredths, both
\* in units of 1/One
RECURSIVE CompoundFix(_, _, _)
CompoundFix(v, cagr, k) ==
    LET w == (One + cagr) \div (One \div Percent)
    IN  IF k = 0 THEN v
        ELSE CompoundFix((v \div Percent) * w + ((v % Percent) * w) \div Percent,
                         cagr, k - 1)

\* calculate_projections on the object monthly_ev_sales of the heap, with no
\* region or year filter and top_n not below the number of states: the sales
\* by state and fiscal year, the CAGR of each state from its first to its
\* last fiscal year, and the sales projected from the latest fiscal year
calculate_projections(heap, monthly_ev_sales, projection_year) ==
    LET filtered_data == Len(heap) + 1
        heap1 == Alloc(heap, heap[monthly_ev_sales])
        data == heap1[filtered_data].rows
        latest_fy == CHOOSE y \in {r.fiscal_year : r \in data} :
                         \A r \in data : r.fiscal_year <= y
        fy_sales(s, y) ==
            SumOf({r \in data : r.state = s /\ r.fiscal_year = y},
                  "electric_vehicles_sold")
        state_years(s) == {r.fiscal_year : r \in {x \in data : x.state = s}}
        first_fy(s) == CHOOSE y \in state_years(s) : \A z \in state_years(s) : y <= z
        last_fy(s) == CHOOSE y \in state_years(s) : \A z \in state_years(s) : y >= z
        top_states_fy == {r.state : r \in {x \in data : x.fiscal_year = latest_fy}}
        with_cagr == {s \in top_states_fy :
                         /\ Cardinality(state_years(s)) >= 2
                         /\ fy_sales(s, first_fy(s)) > 0}
        cagr_of(s) == ProjectionCagr(fy_sales(s, first_fy(s)),
                                     fy_sales(s, last_fy(s)),
                                     last_fy(s) - first_fy(s))
        years_to_project == projection_year - latest_fy
    IN  [heap |-> heap1,
         ret |-> [t |-> "ok",
                  latest_fy |-> latest_fy,
                  cagr_dict |->
                      {[state |-> s, cagr |-> cagr_of(s)] : s \in with_cagr},
                  projected_sales |->
                      {[state |-> s,
                        sales |-> CompoundFix(fy_sales(s, latest_fy) * One,
                                              cagr_of(s), years_to_project)] :
                          s \in with_cagr}]]

(* ------------------------ fiscal year bucketing ----------------------- *)

\* the fiscal year taken to start in March
FiscalYearStart_march(date) == IF date[2] >= 3 THEN date[1] ELSE date[1] - 1

\* df['fiscal_year'] = df['date'].apply(lambda x: x.year if x.month >= 4
\* else x.year - 1): the year the fiscal year starts in
FiscalYearStart(date) == IF date[2] >= 4 THEN date[1] ELSE date[1] - 1

\* np.where(monthly_ev_sales["month"] >= 4, monthly_ev_sales["year"],
\* monthly_ev_sales["year"] - 1), the file's month and year columns being
\* those of the date
FiscalYearOfColumns(year, month) == IF month >= 4 THEN year ELSE year - 1

\* the table with the column fiscal_year added, each row's value computed
\* from its date <<year, month, day>> as the page of kind file computes it
WithFiscalYear(table, file) ==
    Table(table.columns \cup {"fiscal_year"},
          {[x \in (DOMAIN r) \cup {"fiscal_year"} |->
               IF x /= "fiscal_year" THEN r[x]
               ELSE CASE file = "makers_4w" -> FiscalYear(r.date)
                      [] file = "projection" -> FiscalYearOfColumns(r.date[1], r.date[2])
                      [] file = "makers_2w" -> FiscalYearStart(r.date)] :
              r \in table.rows})

\* the part of load_data that buckets the rows of the file read
load_data_fiscal_year(heap, df, file) ==
    [heap |-> heap, ret |-> [t |-> "ok", df |-> WithFiscalYear(heap[df], file)]]

(* --------------------------- penetration rates ------------------------ *)

\* (electric_vehicles_sold / total_vehicles_sold) * 100 of the sums of a set
\* of records
SumRatio(R) ==
    ShareCell(Num(SumOf(R, "electric_vehicles_sold")),
              SumOf(R, "total_vehicles_sold"))

\* the sum and the count of the values of a rate column that are not missing
RECURSIVE RateSum(_, _)
RateSum(R, col) ==
    IF R = {} THEN 0
    ELSE LET r == CHOOSE x \in R : TRUE
         IN  (IF IsNum(r[col]) THEN r[col].v ELSE 0) + RateSum(R \ {r}, col)

RateCount(R, col) == Cardinality({r \in R : IsNum(r[col])})

\* .mean() of a rate column over a group: missing rates are skipped, and a
\* group with no rate at all has none
MeanRate(R, col) ==
    IF RateCount(R, col) = 0 THEN NaN
    ELSE Num(RateSum(R, col) \div RateCount(R, col))

\* "ev_penetration": "mean": the overall rate of a state is the mean of the
\* rates of its records
OverallPenetration(R) == MeanRate(R, "ev_penetration")

\* calculate_kpis of the Delhi/Karnataka dashboard on the object df_filtered
\* of the heap: the rate of every state and vehicle category, the overall
\* figures of every state, and the "Combined" rows added to kpis
calculate_kpis_penetration(heap, df_filtered) ==
    LET data == heap[df_filtered].rows
        of_state(s) == {r \in data : r.state = s}
        group(s, c) == {r \in data : r.state = s /\ r.vehicle_category = c}
        total_ev_sales == SumOf(data, "electric_vehicles_sold")
        kpis == {[state |-> r.state,
                  vehicle_category |-> r.vehicle_category,
                  electric_vehicles_sold |->
                      SumOf(group(r.state, r.vehicle_category),
                            "electric_vehicles_sold"),
                  total_vehicles_sold |->
                      SumOf(group(r.state, r.vehicle_category),
                            "total_vehicles_sold"),
                  ev_penetration |->
                      SumRatio(group(r.state, r.vehicle_category))] : r \in data}
        overall_kpis ==
            {[state |-> r.state,
              electric_vehicles_sold |->
                  SumOf(of_state(r.state), "electric_vehicles_sold"),
              total_vehicles_sold |->
                  SumOf(of_state(r.state), "total_vehicles_sold"),
              avg_ev_penetration |-> OverallPenetration(of_state(r.state)),
              ev_penetration |-> OverallPenetration(of_state(r.state)),
              market_share |->
                  ShareCell(Num(SumOf(of_state(r.state), "electric_vehicles_sold")),
                            total_ev_sales)] : r \in data}
    IN  [heap |-> heap,
         ret |-> [t |-> "ok",
                  kpis |-> kpis \cup
                      {[state |-> o.state,
                        vehicle_category |-> "Combined",
                        electric_vehicles_sold |-> o.electric_vehicles_sold,
                        total_vehicles_sold |-> o.total_vehicles_sold,
                        ev_penetration |-> o.ev_penetration] : o \in overall_kpis},
                  overall_kpis |-> overall_kpis]]

\* main of the penetration decline page up to the pivot, on the object df of
\* the heap: df["year"] is assigned on df itself, the yearly rate of a state
\* is the mean of its records' rates, and a year a state has no record in
\* is filled with 0
penetration_pivot(heap, df) ==
    LET heap1 == [heap EXCEPT ![df] =
                     Table(@.columns \cup {"year"},
                           {[x \in (DOMAIN r) \cup {"year"} |->
                                IF x = "year" THEN r.date[1] ELSE r[x]] :
                               r \in @.rows})]
        data == heap1[df].rows
        group(s, y) == {r \in data : r.state = s /\ r.year = y}
    IN  [heap |-> heap1,
         ret |-> [t |-> "ok",
                  pivot |->
                      {[state |-> s, year |-> y,
                        ev_penetration_rate |->
                            IF group(s, y) = {} THEN Num(0)
                            ELSE MeanRate(group(s, y), "ev_penetration_rate")] :
                          s \in {r.state : r \in data},
                          y \in {r.year : r \in data}}]]

\* calculate_top_states on the object dataframe of the heap, for tables of at
\* most five states: nlargest(5, "penetration_rate") keeps every state
calculate_top_states(heap, dataframe, category) ==
    LET category_df == {r \in heap[dataframe].rows : r.vehicle_category = category}
        of_state(s) == {r \in category_df : r.state = s}
    IN  [heap |-> heap,
         ret |-> [t |-> "ok",
                  stats |->
                      {[state |-> r.state,
                        electric_vehicles_sold |->
                            SumOf(of_state(r.state), "electric_vehicles_sold"),
                        total_vehicles_sold |->
                            SumOf(of_state(r.state), "total_vehicles_sold"),
                        penetration_rate |-> SumRatio(of_state(r.state))] :
                          r \in category_df}]]

(* ---------------------- leaders and laggards ------------------------- *)

\* the slider "Number of Top/Bottom Makers": its minimum and its default
MinNumMakers == 1
DefaultNumMakers == 3

\* calculate_top_bottom_makers on the object df of the heap: every result the
\* sort can give
calculate_top_bottom_makers(heap, df, fiscal_year, num_makers) ==
    LET yearly_df == {r \in heap[df].rows : r.fiscal_year = fiscal_year}
        grouped == SortedMakers({r.maker : r \in yearly_df})
        sums == [i \in DOMAIN grouped |->
                    [maker |-> grouped[i],
                     electric_vehicles_sold |->
                         SumSold({r \in yearly_df : r.maker = grouped[i]})]]
        maker_sales == SelectSeq(sums, LAMBDA r : r.electric_vehicles_sold > 0)
    IN  IF maker_sales = <<>>
        THEN {[heap |-> heap,
               ret |-> [top_makers |-> <<>>, bottom_makers |-> <<>>]]}
        ELSE {[heap |-> heap,
               ret |-> [top_makers |-> HeadN(sorted, num_makers),
                        bottom_makers |-> TailN(sorted, num_makers)]] :
                 sorted \in SortValuesDesc(
                     maker_sales,
                     NumColumn(ColumnOf(maker_sales, "electric_vehicles_sold")))}

(* ---------------------- the quarterly CAGR -------------------------- *)

\* the growth a new entrant is given, in percent
NewEntrantPct == 1000

\* character codes of "0", "-" and "Q"
CharZero == 48
CharDash == 45
CharQ == 81

\* str(n) of an integer n >= 0, as character codes
RECURSIVE StrOfInt(_)
StrOfInt(n) ==
    IF n < 10 THEN <<CharZero + n>>
    ELSE Append(StrOfInt(n \div 10), CharZero + (n % 10))

\* int(s) of a string of digits
RECURSIVE IntOfStr(_)
IntOfStr(s) ==
    IF Len(s) = 0 THEN 0
    ELSE 10 * IntOfStr(SubSeq(s, 1, Len(s) - 1)) + (s[Len(s)] - CharZero)

\* df['date'].dt.year.astype(str) + "-Q" + df['date'].dt.quarter.astype(str)
YearQuarter(date) ==
    StrOfInt(date[1]) \o <<CharDash, CharQ>> \o StrOfInt((date[2] - 1) \div 3 + 1)

\* s < t for Python strings: by the first character that differs, a prefix
\* before the longer string
RECURSIVE StrLess(_, _)
StrLess(s, t) ==
    IF Len(t) = 0 THEN FALSE
    ELSE IF Len(s) = 0 THEN TRUE
    ELSE IF s[1] /= t[1] THEN s[1] < t[1]
    ELSE StrLess(Tail(s), Tail(t))

\* the position of the first character c in s
FirstIndexOf(s, c) ==
    CHOOSE i \in 1..Len(s) : s[i] = c /\ \A j \in 1..(i - 1) : s[j] /= c

\* int(token.split('-')[0]) and int(token.split('Q')[1]) of a token that has
\* one "-" and one "Q"
TokenYear(token) == IntOfStr(SubSeq(token, 1, FirstIndexOf(token, CharDash) - 1))
TokenQuarter(token) ==
    IntOfStr(SubSeq(token, FirstIndexOf(token, CharQ) + 1, Len(token)))

\* the tokens in the order of unique() on rows sorted the other way round
RECURSIVE all_quarters_descending(_)
all_quarters_descending(tokens) ==
    IF tokens = {} THEN <<>>
    ELSE LET m == CHOOSE x \in tokens : \A y \in tokens : y = x \/ StrLess(y, x)
         IN  <<m>> \o all_quarters_descending(tokens \ {m})

\* sorted(quarterly_sales['year_quarter'].unique())
RECURSIVE all_quarters(_)
all_quarters(tokens) ==
    IF tokens = {} THEN <<>>
    ELSE LET m == CHOOSE x \in tokens : \A y \in tokens : y = x \/ StrLess(x, y)
         IN  <<m>> \o all_quarters(tokens \ {m})

\* time_period in quarters: 4 * ((end_year - start_year)
\*                               + (end_quarter - start_quarter) / 4)
TimePeriodQuarters(first, last) ==
    4 * (TokenYear(last) - TokenYear(first))
        + (TokenQuarter(last) - TokenQuarter(first))

\* ((end / start) ** (1 / time_period) - 1) * 100 on pandas columns, and
\* replace([inf, -inf], nan).  The exponent is 4 / quarters: 1 / time_period
\* is a division of Python floats
QuarterlyGrowth(start, end, quarters) ==
    LET g == Gcd(4, IF quarters < 0 THEN 0 - quarters ELSE quarters)
    IN  IF quarters = 0 THEN ZeroDivisionError
        ELSE IF start = 0
             THEN (IF quarters < 0 /\ end > 0 THEN Num(0 - One) ELSE NaN)
        ELSE IF quarters < 0 /\ end = 0 THEN NaN
        ELSE GrowthPct(PowInt(end, 4 \div g), PowInt(start, 4 \div g),
                       quarters \div g, TRUE)

\* the value of the merge for a maker: its sales of the quarter, NaN without
\* a row for it, and fillna(1)
MergedSales(rows, maker, token) ==
    LET hit == {r \in rows : r.maker = maker /\ r.year_quarter = token}
    IN  IF hit = {} THEN 1
        ELSE (CHOOSE r \in hit : TRUE).electric_vehicles_sold

\* f"{x:.1f}%" if abs(x) < 1000 else "New Entrant" if x > 0 else "Exit"
CagrFormatted(x) ==
    IF IsNum(x) /\ x.v < NewEntrantPct * (One \div Percent)
                /\ 0 - x.v < NewEntrantPct * (One \div Percent)
    THEN [label |-> "%.1f%", v |-> x.v]
    ELSE IF IsNum(x) /\ x.v > 0 THEN [label |-> "New Entrant", v |-> 0]
    ELSE [label |-> "Exit", v |-> 0]

\* the CAGR block of the Growth Rates tab on quarterly_sales, a table with
\* one row for a maker and a quarter the maker has records in
quarterly_cagr(heap, quarterly_sales) ==
    LET rows == heap[quarterly_sales].rows
        quarters == all_quarters({r.year_quarter : r \in rows})
    IN  IF Len(quarters) < 2
        THEN [heap |-> heap, ret |-> [t |-> "skipped", time_quarters |-> 0,
                                      cagr_df |-> {}]]
        ELSE
          LET first == quarters[1]
              last == quarters[Len(quarters)]
              time == TimePeriodQuarters(first, last)
              merged == {r.maker : r \in {x \in rows :
                                            x.year_quarter \in {first, last}}}
              cagr(s, e) ==
                  IF s <= 1 /\ e > 1
                  THEN Num(NewEntrantPct * (One \div Percent))
                  ELSE QuarterlyGrowth(s, e, time)
          IN  IF time = 0
              THEN [heap |-> heap,
                    ret |-> [t |-> "ZeroDivisionError", time_quarters |-> time,
                             cagr_df |-> {}]]
              ELSE [heap |-> heap,
                    ret |-> [t |-> "ok", time_quarters |-> time,
                             cagr_df |->
                               {[maker |-> m,
                                 electric_vehicles_sold_start |->
                                     MergedSales(rows, m, first),
                                 electric_vehicles_sold_end |->
                                     MergedSales(rows, m, last),
                                 cagr |-> cagr(MergedSales(rows, m, first),
                                               MergedSales(rows, m, last)),
                                 cagr_formatted |->
                                     CagrFormatted(cagr(MergedSales(rows, m, first),
                                                        MergedSales(rows, m, last)))] :
                                m \in merged}]]

(* ---------------- specification: the metric functions ----------------- *)

PureSales == 0..MaxPureSales

\* result tables of get_top_makers_cagr over the first and the last fiscal
\* year: one maker with every pair of sales, alone or above a second maker
PureResultRow(m, a, b) ==
    [maker |-> m,
     sales |-> [y \in {FirstYear, LastYear} |->
                   IF y = FirstYear THEN Num(a) ELSE Num(b)],
     cagr |-> calculate_cagr(Num(a), Num(b), LastYear - FirstYear, TRUE)]

PureResultTables ==
    {Table(<<FirstYear, LastYear>>, <<PureResultRow(Makers[1], a, b)>>) :
        a \in PureSales, b \in PureSales}
    \cup {Table(<<FirstYear, LastYear>>,
                <<PureResultRow(Makers[1], a, b), PureResultRow(Makers[2], 1, 1)>>) :
             a \in PureSales, b \in PureSales}

\* monthly sales tables of get_monthly_sales: no month, one or two
MonthlyTables ==
    {Table({"month_name", "electric_vehicles_sold"}, <<>>)}
    \cup {Table({"month_name", "electric_vehicles_sold"},
                <<[month_name |-> "January", electric_vehicles_sold |-> a]>>) :
             a \in PureSales}
    \cup {Table({"month_name", "electric_vehicles_sold"},
                <<[month_name |-> "January", electric_vehicles_sold |-> a],
                  [month_name |-> "February", electric_vehicles_sold |-> b]>>) :
             a \in PureSales, b \in PureSales}

\* top-states tables for the map: one or two states with their rates
MapTables ==
    {Table({"state", "penetration_rate"},
           <<[state |-> "Delhi", penetration_rate |-> a]>>) : a \in PureSales}
    \cup {Table({"state", "penetration_rate"},
                <<[state |-> s, penetration_rate |-> a],
                  [state |-> "Delhi", penetration_rate |-> b]>>) :
             s \in {"Goa", "NCT of Delhi"}, a \in PureSales, b \in PureSales}

\* the values of replace_state_names: not given, and Delhi under its map name
ReplaceStateNames == {{}, {<<"Delhi", "NCT of Delhi">>}}

\* sales tables for the projection: a state with sales in some fiscal years,
\* alone or beside a state that has the last fiscal year only
FyRow(s, y, x) == [state |-> s, fiscal_year |-> y, electric_vehicles_sold |-> x]

FyRowSets ==
    UNION { {{FyRow(States[1], y, f[y]) : y \in Y} : f \in [Y -> PureSales]} :
              Y \in (SUBSET Periods) \ {{}} }

ProjectionTables ==
    {Table({"state", "fiscal_year", "electric_vehicles_sold"}, R) : R \in FyRowSets}
    \cup {Table({"state", "fiscal_year", "electric_vehicles_sold"},
                R \cup {FyRow(States[2], LastYear, 1)}) : R \in FyRowSets}

\* state_sales tables for calculate_cagrs: one state of each kind
CagrsTables ==
    {Table({"state", "fiscal_year", "electric_vehicles_sold", "total_vehicles_sold"},
           R) :
        R \in {FullState(States[1], x) : x \in PureSales}
              \cup {NoStartState(States[1]), NoEndState(States[1]),
                    ZeroStartState(States[1])}}

\* (electric, total) sales of a record: no more electric vehicles than vehicles
SalesPairs == {p \in PureSales \X PureSales : p[1] <= p[2]}

PenetrationStates == {"Delhi", "Karnataka"}
VehicleCategories == {"2-Wheelers", "4-Wheelers"}

\* a record of the sales file after load_data of the Delhi/Karnataka page,
\* which adds the record's own rate as "ev_penetration"
PenRecord(s, c, d, p) ==
    [state |-> s, vehicle_category |-> c, date |-> d,
     electric_vehicles_sold |-> p[1], total_vehicles_sold |-> p[2],
     ev_penetration |-> ShareCell(Num(p[1]), p[2])]

\* a record of the sales file, whose own rate is the column
\* "ev_penetration_rate"
RateRecord(s, c, d, p) ==
    [state |-> s, vehicle_category |-> c, date |-> d,
     electric_vehicles_sold |-> p[1], total_vehicles_sold |-> p[2],
     ev_penetration_rate |-> ShareCell(Num(p[1]), p[2])]

\* df_filtered: one record of fiscal year 2024, alone or with a second one
\* of either state and category
PenTables ==
    LET cols == {"state", "vehicle_category", "date", "electric_vehicles_sold",
                 "total_vehicles_sold", "ev_penetration"}
        first(p) == PenRecord("Delhi", "2-Wheelers", <<FY2023, 4>>, p)
    IN  {Table(cols, {first(p)}) : p \in SalesPairs}
        \cup {Table(cols, {first(p), PenRecord(s, c, <<FY2023, 5>>, q)}) :
                 p \in SalesPairs, q \in SalesPairs,
                 s \in PenetrationStates, c \in VehicleCategories}

\* tables of the sales file: a record at date d1, alone or with a second
\* one of either state and category at a date of D2
RateTables(d1, D2) ==
    LET cols == {"state", "vehicle_category", "date", "electric_vehicles_sold",
                 "total_vehicles_sold", "ev_penetration_rate"}
        first(p) == RateRecord("Delhi", "2-Wheelers", d1, p)
    IN  {Table(cols, {first(p)}) : p \in SalesPairs}
        \cup {Table(cols, {first(p), RateRecord(s, c, d, q)}) :
                 p \in SalesPairs, q \in SalesPairs,
                 s \in PenetrationStates, c \in VehicleCategories, d \in D2}

\* the calls tried, function by function
YoyGrowthCalls ==
    {[fn |-> "calculate_yoy_growth", table |-> tb, opts |-> {}] :
        tb \in PureResultTables}

MarketShareCalls ==
    {[fn |-> "calculate_market_share",
      table |-> Table(tb.columns, calculate_yoy_growth(tb.rows, tb.columns)),
      opts |-> {}] : tb \in PureResultTables}

CalculateCagrsCalls ==
    {[fn |-> "calculate_cagrs", table |-> tb, opts |-> {ty}] :
        tb \in CagrsTables, ty \in {"total", "ev", "non_ev"}}

KpisCalls ==
    {[fn |-> "calculate_kpis", table |-> tb, opts |-> {}] : tb \in MonthlyTables}

PenetrationMapCalls ==
    {[fn |-> "plot_ev_penetration_map", table |-> tb, opts |-> d] :
        tb \in MapTables, d \in ReplaceStateNames}

ProjectionsCalls ==
    {[fn |-> "calculate_projections", table |-> tb, opts |-> {}] :
        tb \in ProjectionTables}

\* the dates of two calendar years: every month, its first day and its 28th
Dates == (FirstYear..(FirstYear + 1)) \X (1..12) \X {1, 28}

\* the files read: one or two rows with their dates
DatedTables ==
    {Table({"date", "electric_vehicles_sold"},
           {[date |-> d1, electric_vehicles_sold |-> 1],
            [date |-> d2, electric_vehicles_sold |-> 1]}) :
        d1 \in Dates, d2 \in Dates}

\* the first months of three quarters in a row, the last in the next year
QuarterDates == {<<FirstYear, 7>>, <<FirstYear, 10>>, <<FirstYear + 1, 1>>}

\* quarterly_sales of two makers: for a maker and a quarter no row, or a row
\* with the sum of its sales
QuarterlyTables ==
    {Table({"maker", "year_quarter", "electric_vehicles_sold"},
           {[maker |-> k[1], year_quarter |-> YearQuarter(k[2]),
             electric_vehicles_sold |-> sold[k]] :
               k \in {x \in DOMAIN sold : sold[x] <= MaxPureSales}}) :
        sold \in [{Makers[1], Makers[2]} \X QuarterDates -> 0..(MaxPureSales + 1)]}

QuarterlyCagrCalls ==
    {[fn |-> "quarterly_cagr", table |-> tb, opts |-> {}] : tb \in QuarterlyTables}

\* the 2-wheeler sales: a row for each of three makers in FY2023
TopBottomTables ==
    {Table({"maker", "fiscal_year", "electric_vehicles_sold"},
           {[maker |-> Makers[i], fiscal_year |-> FY2023,
             electric_vehicles_sold |-> sold[i]] : i \in DOMAIN sold}) :
        sold \in [1..3 -> 0..MaxPureSales]}

TopBottomCalls ==
    {[fn |-> "calculate_top_bottom_makers", table |-> tb, opts |-> {<<fy, n>>}] :
        tb \in TopBottomTables, fy \in {FY2023, FY2024},
        n \in {MinNumMakers, DefaultNumMakers}}

FiscalYearCalls ==
    {[fn |-> "load_data", table |-> tb, opts |-> {file}] :
        tb \in DatedTables, file \in {"makers_4w", "projection", "makers_2w"}}

KpisPenetrationCalls ==
    {[fn |-> "calculate_kpis_penetration", table |-> tb, opts |-> {}] :
        tb \in PenTables}

PenetrationPivotCalls ==
    {[fn |-> "penetration_pivot", table |-> tb, opts |-> {}] :
        tb \in RateTables(<<FirstYear, 1>>, {<<FirstYear, 2>>, <<FirstYear + 1, 1>>})}

TopStatesCalls ==
    {[fn |-> "calculate_top_states", table |-> tb, opts |-> {c}] :
        tb \in RateTables(<<FY2023, 4>>, {<<FY2023, 5>>}), c \in VehicleCategories}

PureInit ==
    /\ \/ pure_call \in YoyGrowthCalls
       \/ pure_call \in MarketShareCalls
       \/ pure_call \in CalculateCagrsCalls
       \/ pure_call \in KpisCalls
       \/ pure_call \in PenetrationMapCalls
       \/ pure_call \in ProjectionsCalls
       \/ pure_call \in KpisPenetrationCalls
       \/ pure_call \in PenetrationPivotCalls
       \/ pure_call \in TopStatesCalls
       \/ pure_call \in FiscalYearCalls
       \/ pure_call \in QuarterlyCagrCalls
       \/ pure_call \in TopBottomCalls
    /\ pure_arg = Pending
    /\ pure_ret = Pending
    /\ cagr_args = [start |-> NaN, end |-> NaN, years |-> 0, np |-> TRUE]
    /\ cagr_ret = Pending
    /\ DashIdle
    /\ ShareIdle
    /\ ChangeIdle
    /\ StatesIdle
    /\ HubIdle

\* the call of pure_call on a heap whose object 1 is the table passed
PureCall(fn, res) ==
    /\ pure_arg = Pending
    /\ pure_call.fn = fn
    /\ pure_arg' = res.heap[1]
    /\ pure_ret' = res.ret
    /\ UNCHANGED pure_call
    /\ UNCHANGED cagr_vars
    /\ UNCHANGED dash_vars
    /\ UNCHANGED ms_vars
    /\ UNCHANGED chg_vars
    /\ UNCHANGED st_vars
    /\ UNCHANGED hub_vars

CallYoyGrowth ==
    PureCall("calculate_yoy_growth",
             calculate_yoy_growth_df(<<pure_call.table>>, 1))

CallMarketShare ==
    PureCall("calculate_market_share",
             calculate_market_share_df(<<pure_call.table>>, 1))

CallCalculateCagrs ==
    LET res == calculate_cagrs(<<pure_call.table>>, 1, FirstYear, LastYear,
                               CHOOSE ty \in pure_call.opts : TRUE)
    IN  PureCall("calculate_cagrs",
                 [heap |-> res.heap,
                  ret |-> [t |-> res.t, pivot_data |-> res.pivot_data]])

CallKpis ==
    PureCall("calculate_kpis", calculate_kpis(<<pure_call.table>>, 1))

CallPenetrationMap ==
    PureCall("plot_ev_penetration_map",
             plot_ev_penetration_map(<<pure_call.table>>, 1, pure_call.opts))

CallProjections ==
    PureCall("calculate_projections",
             calculate_projections(<<pure_call.table>>, 1, ProjectionYear))

CallKpisPenetration ==
    PureCall("calculate_kpis_penetration",
             calculate_kpis_penetration(<<pure_call.table>>, 1))

CallPenetrationPivot ==
    PureCall("penetration_pivot", penetration_pivot(<<pure_call.table>>, 1))

CallTopStates ==
    PureCall("calculate_top_states",
             calculate_top_states(<<pure_call.table>>, 1,
                                  CHOOSE c \in pure_call.opts : TRUE))

CallLoadData ==
    PureCall("load_data",
             load_data_fiscal_year(<<pure_call.table>>, 1,
                                   CHOOSE file \in pure_call.opts : TRUE))

CallQuarterlyCagr ==
    PureCall("quarterly_cagr", quarterly_cagr(<<pure_call.table>>, 1))

CallTopBottomMakers ==
    /\ pure_call.fn = "calculate_top_bottom_makers"
    /\ \E res \in calculate_top_bottom_makers(
                      <<pure_call.table>>, 1,
                      (CHOOSE o \in pure_call.opts : TRUE)[1],
                      (CHOOSE o \in pure_call.opts : TRUE)[2]) :
           PureCall("calculate_top_bottom_makers", res)

PureNext ==
    \/ CallYoyGrowth
    \/ CallMarketShare
    \/ CallCalculateCagrs
    \/ CallKpis
    \/ CallPenetrationMap
    \/ CallProjections
    \/ CallKpisPenetration
    \/ CallPenetrationPivot
    \/ CallTopStates
    \/ CallLoadData
    \/ CallQuarterlyCagr
    \/ CallTopBottomMakers

SpecPure == PureInit /\ [][PureNext]_vars

(* -------------------- claims on the metric functions ------------------ *)

PureReturned == pure_arg /= Pending

\* the sales of a state in a fiscal year of the table passed to the call
PassedSales(s, y) ==
    SumOf({r \in pure_call.table.rows : r.state = s /\ r.fiscal_year = y},
          "electric_vehicles_sold")

\* the fiscal years the table passed has for a state
PassedYears(s) ==
    {r.fiscal_year : r \in {x \in pure_call.table.rows : x.state = s}}

\* start * (1 + cagr) ^ n gives back end, to the last digit of the rate: the
\* next representable rate already compounds to more than end
RoundTrips(start, cagr, n, end) ==
    IsGrowthFactor(One + cagr, start, end, n)

\* C17: CAGR round-trips: for every start > 0, end >= 0 and n >= 1,
\* compounding start by the returned rate for n periods gives back end.
C17_CagrRoundTrips ==
    (PureReturned /\ pure_call.fn = "calculate_projections")
        => \A e \in pure_ret.cagr_dict :
              LET years == PassedYears(e.state)
                  first == CHOOSE y \in years : \A z \in years : y <= z
                  last == CHOOSE y \in years : \A z \in years : y >= z
              IN  RoundTrips(PassedSales(e.state, first), e.cagr,
                             last - first, PassedSales(e.state, last))

\* C19: every metric function is pure with respect to its arguments:
\* calculate_yoy_growth, calculate_market_share, calculate_cagrs,
\* calculate_kpis and plot_ev_penetration_map leave the table passed to them
\* with the same columns and values after the call as before.
C19_TablePassedUnchanged ==
    (/\ PureReturned
     /\ pure_call.fn \in {"calculate_yoy_growth", "calculate_market_share",
                          "calculate_cagrs", "calculate_kpis",
                          "plot_ev_penetration_map"})
        => pure_arg = pure_call.table

\* the records of the table passed that belong to a state and a category
\* ("Combined": every category) and, where y is not 0, to the year y
PassedRecords(s, c, y) ==
    {r \in pure_call.table.rows :
        /\ r.state = s
        /\ c = "Combined" \/ r.vehicle_category = c
        /\ y = 0 \/ r.date[1] = y}

\* C21: the penetration rate reported for an entity over a period equals
\* 100 * (sum of electric units sold in the period) / (sum of total units
\* sold in the period), for every set of records of that entity and period.
C21_PenetrationIsRatioOfSums ==
    /\ (PureReturned /\ pure_call.fn = "calculate_kpis_penetration")
        => \A k \in pure_ret.kpis :
              k.ev_penetration =
                  SumRatio(PassedRecords(k.state, k.vehicle_category, 0))
    /\ (PureReturned /\ pure_call.fn = "penetration_pivot")
        => \A e \in pure_ret.pivot :
              PassedRecords(e.state, "Combined", e.year) /= {}
                  => e.ev_penetration_rate =
                         SumRatio(PassedRecords(e.state, "Combined", e.year))
    /\ (PureReturned /\ pure_call.fn = "calculate_top_states")
        => \A e \in pure_ret.stats :
              e.penetration_rate =
                  SumRatio(PassedRecords(e.state,
                                         CHOOSE c \in pure_call.opts : TRUE, 0))

\* the number of the April-to-March window a date lies in: its months
\* counted from an April on, in twelves
AprilToMarch(date) == (12 * date[1] + date[2] - 4) \div 12

\* C22: fiscal-year bucketing assigns every date from April of calendar
\* year Y through March of year Y+1 to one and the same fiscal-year bucket,
\* and the dates of April Y+1 to the next bucket; no calendar month is split
\* across buckets.
C22_AprilToMarchBuckets ==
    (PureReturned /\ pure_call.fn = "load_data")
        => \A r1, r2 \in pure_ret.df.rows :
              /\ AprilToMarch(r1.date) = AprilToMarch(r2.date)
                    => r1.fiscal_year = r2.fiscal_year
              /\ AprilToMarch(r2.date) = AprilToMarch(r1.date) + 1
                    => r2.fiscal_year = r1.fiscal_year + 1
              /\ (r1.date[1] = r2.date[1] /\ r1.date[2] = r2.date[2])
                    => r1.fiscal_year = r2.fiscal_year

\* the 1st of April and the 28th of the following March were bucketed
\* together by the 2-wheeler page
C22_Witness ==
    /\ PureReturned
    /\ pure_call.fn = "load_data"
    /\ pure_call.opts = {"makers_2w"}
    /\ \E r1, r2 \in pure_ret.df.rows :
          /\ r1.date = <<FirstYear, 4, 1>>
          /\ r2.date = <<FirstYear + 1, 3, 28>>
          /\ r1.fiscal_year = r2.fiscal_year

\* the sales of a maker in a quarter of the table passed; 0 without a row
QuarterSales(maker, token) ==
    SumOf({r \in pure_call.table.rows :
              r.maker = maker /\ r.year_quarter = token}, "electric_vehicles_sold")

\* the first and the last quarter of the table passed
PassedQuarters == all_quarters({r.year_quarter : r \in pure_call.table.rows})
FirstQuarter == PassedQuarters[1]
LastQuarter == PassedQuarters[Len(PassedQuarters)]

\* C26: in the quarterly-trends CAGR, a maker is given the 1000% "New
\* Entrant" value if and only if it had no (or zero) sales in the first
\* quarter and positive sales in the last quarter; a maker with real sales in
\* both quarters always shows its computed CAGR.
C26_NewEntrantIffNoStartSales ==
    (PureReturned /\ pure_call.fn = "quarterly_cagr" /\ pure_ret.t = "ok")
        => \A r \in pure_ret.cagr_df :
              LET start == QuarterSales(r.maker, FirstQuarter)
                  end == QuarterSales(r.maker, LastQuarter)
              IN  /\ (r.cagr = Num(NewEntrantPct * (One \div Percent)))
                         <=> (start = 0 /\ end > 0)
                  /\ (start > 0 /\ end > 0)
                         => r.cagr = QuarterlyGrowth(start, end,
                                                     pure_ret.time_quarters)

\* C29: in the quarterly-trends CAGR, whenever at least two distinct
\* year-quarter tokens are present, the CAGR is computed and the elapsed time
\* (end_year - start_year) + (end_quarter - start_quarter)/4 between the first
\* and last token in sorted order is strictly positive, so the exponent
\* 1/time_period is defined.
C29_TimePeriodPositive ==
    (PureReturned /\ pure_call.fn = "quarterly_cagr"
                  /\ Len(PassedQuarters) >= 2)
        => /\ pure_ret.t = "ok"
           /\ pure_ret.time_quarters > 0

\* the quarters run from the last of one year to the first of the next: the
\* quarter numbers go down and the elapsed time is one quarter
C29_Witness ==
    /\ PureReturned
    /\ pure_call.fn = "quarterly_cagr"
    /\ pure_ret.t = "ok"
    /\ TokenQuarter(FirstQuarter) = 4
    /\ TokenQuarter(LastQuarter) = 1
    /\ pure_ret.time_quarters = 1

\* C30: for every fiscal year and every num_makers, no maker appears in both
\* the top list and the bottom list returned by calculate_top_bottom_makers
\* (leaders and laggards are disjoint).
C30_LeadersAndLaggardsDisjoint ==
    (PureReturned /\ pure_call.fn = "calculate_top_bottom_makers")
        => {r.maker : r \in SeqRange(pure_ret.top_makers)}
               \cap {r.maker : r \in SeqRange(pure_ret.bottom_makers)} = {}

(* ------------------------------ the hub ------------------------------ *)

\* len(analyses)
NumAnalyses == 9

\* the rerun chains followed: st.rerun() calls after one user action
MaxReruns == 3

\* the integers tried as the query parameter, from one below to one above
QueryIntegers == (0 - 1)..NumAnalyses

\* the position of "Hub Home" in the options of the sidebar selectbox
HubHome == 0

\* options of the selectbox: "Hub Home", then analyses[i]["name"] at i + 1
SidebarOptions == HubHome..NumAnalyses

\* no "analysis" key in st.query_params
NoQuery == [t |-> "absent", v |-> 0, canon |-> FALSE]

\* st.query_params["analysis"] = i stores str(i)
QueryOf(i) == [t |-> "int", v |-> i, canon |-> TRUE]

\* the values of the parameter: text int() rejects, text int() accepts that
\* is str(v) (canon), and text int() accepts that is not ("07", " 7", "+7")
QueryValues ==
    {NoQuery, [t |-> "text", v |-> 0, canon |-> FALSE]}
        \cup {[t |-> "int", v |-> i, canon |-> c] :
                i \in QueryIntegers, c \in BOOLEAN}

\* the steps of run_analysis_module that do not go through
FailedSteps(env) ==
    {k \in {"exists", "spec", "loader", "exec_module", "has_main", "main"} :
        \/ k = "exists" /\ ~env.exists
        \/ k = "spec" /\ env.spec = "None"
        \/ k = "loader" /\ env.loader = "None"
        \/ k = "exec_module" /\ env.exec_module /= "returns"
        \/ k = "has_main" /\ ~env.has_main
        \/ k = "main" /\ env.main /= "returns"}

\* what run_analysis_module meets on its way: the file, the import
\* machinery, the import of the module and its main; a step behind the one
\* that does not go through is never met, so that at most one is tried
ModuleEnvs ==
    {env \in [exists : BOOLEAN,
              spec : {"ModuleSpec", "None"},
              loader : {"Loader", "None"},
              exec_module : {"returns", "Exception", "ScriptControlException"},
              has_main : BOOLEAN,
              main : {"returns", "Exception", "ScriptControlException"}] :
        Cardinality(FailedSteps(env)) <= 1}

ModuleResult(ret, report) == [ret |-> ret, report |-> report]

\* the script control exceptions derive from BaseException: the handler of
\* run_analysis_module does not catch them
run_analysis_module_no_main(env) ==
    IF ~env.exists THEN ModuleResult("False", "error: not found")
    ELSE IF env.spec = "None" THEN ModuleResult("False", "error: could not import")
    ELSE IF env.loader = "None" THEN ModuleResult("False", "error: could not load")
    ELSE IF env.exec_module = "Exception"
         THEN ModuleResult("False", "error: running")
    ELSE IF env.exec_module = "ScriptControlException"
         THEN ModuleResult("raised", "none")
    ELSE IF ~env.has_main THEN ModuleResult("True", "none")
    ELSE IF env.main = "Exception" THEN ModuleResult("False", "error: running")
    ELSE IF env.main = "ScriptControlException"
         THEN ModuleResult("raised", "none")
    ELSE ModuleResult("True", "none")

run_analysis_module(env) ==
    IF ~env.exists THEN ModuleResult("False", "error: not found")
    ELSE IF env.spec = "None" THEN ModuleResult("False", "error: could not import")
    ELSE IF env.loader = "None" THEN ModuleResult("False", "error: could not load")
    ELSE IF env.exec_module = "Exception"
         THEN ModuleResult("False", "error: running")
    ELSE IF env.exec_module = "ScriptControlException"
         THEN ModuleResult("raised", "none")
    ELSE IF ~env.has_main THEN ModuleResult("False", "warning: no main")
    ELSE IF env.main = "Exception" THEN ModuleResult("False", "error: running")
    ELSE IF env.main = "ScriptControlException"
         THEN ModuleResult("raised", "none")
    ELSE ModuleResult("True", "none")

\* int(query_params["analysis"]) with the range test of main
ValidIndex(query) ==
    query.t = "int" /\ 0 <= query.v /\ query.v < NumAnalyses

\* the selectbox shows its kept state, or options[index] when it has none
Selectbox(widget, index) ==
    IF widget = {} THEN index ELSE CHOOSE s \in widget : TRUE

\* a page on which nothing is drawn yet, for a run started with this query
\* parameter and with or without the click on Back to Home
BlankPage(query, clicked) ==
    [param |-> query, clicked |-> clicked, error |-> "none", back |-> FALSE,
     heading |-> {}, modules |-> <<>>, calls |-> <<>>, sidebar |-> FALSE,
     selected |-> {}, home |-> FALSE, warning |-> FALSE, stopped |-> FALSE,
     interrupted |-> FALSE, rerun |-> FALSE]

\* the page after run_analysis_module(analyses[i]["path"])
WithModule(page, i, env) ==
    LET res == run_analysis_module(env)
    IN  [page EXCEPT !.modules = Append(@, i),
                     !.calls = Append(@, [env |-> env, res |-> res]),
                     !.interrupted = (res.ret = "raised")]

\* navigation that clears or sets the parameter and reruns on every run
Navigate_always(query, prev, selected) ==
    [query |-> IF selected = HubHome THEN NoQuery ELSE QueryOf(selected - 1),
     prev |-> prev, rerun |-> TRUE]

\* the sidebar selection against st.session_state["previous_selection"]
Navigate(query, prev, selected) ==
    IF prev /= {selected}
    THEN IF selected = HubHome
         THEN IF query.t /= "absent"
              THEN [query |-> NoQuery, prev |-> {selected}, rerun |-> TRUE]
              ELSE [query |-> query, prev |-> {selected}, rerun |-> FALSE]
         ELSE IF query /= QueryOf(selected - 1)
              THEN [query |-> QueryOf(selected - 1), prev |-> {selected},
                    rerun |-> TRUE]
              ELSE [query |-> query, prev |-> {selected}, rerun |-> FALSE]
    ELSE [query |-> query, prev |-> prev, rerun |-> FALSE]

\* the error main reports for a parameter it does not accept
QueryError(query) ==
    IF query.t = "text" THEN "Error loading analysis"
    ELSE IF query.t = "int" /\ ~ValidIndex(query) THEN "Invalid analysis index"
    ELSE "none"

\* main from the sidebar on: the selectbox, the navigation and the page of
\* the selection
HubHomePage(query, prev, widget, page, env) ==
    LET default_index == IF ValidIndex(query) THEN query.v + 1 ELSE 0
        selected_analysis == Selectbox(widget, default_index)
        nav == Navigate(query, prev, selected_analysis)
        drawn == [page EXCEPT !.sidebar = TRUE, !.selected = {selected_analysis}]
    IN  [query |-> nav.query, prev |-> nav.prev, widget |-> {selected_analysis},
         page |-> IF nav.rerun THEN [drawn EXCEPT !.rerun = TRUE]
                  ELSE IF selected_analysis = HubHome
                       THEN [drawn EXCEPT !.home = TRUE]
                  ELSE IF env.exists
                       THEN WithModule(drawn, selected_analysis - 1, env)
                  ELSE [drawn EXCEPT !.warning = TRUE]]

\* main without st.stop() after the analysis of the query parameter
hub_main_no_stop(query, prev, widget, clicked, env, keeps) ==
    LET page == [BlankPage(query, clicked) EXCEPT !.back = TRUE]
        kept == IF keeps THEN widget ELSE {}
    IN  IF ValidIndex(query)
        THEN IF clicked
             THEN [query |-> NoQuery, prev |-> prev, widget |-> kept,
                   page |-> [page EXCEPT !.rerun = TRUE]]
             ELSE LET ran == WithModule([page EXCEPT !.heading = {query.v}],
                                        query.v, env)
                  IN  IF ran.interrupted
                      THEN [query |-> query, prev |-> prev, widget |-> kept,
                            page |-> ran]
                      ELSE HubHomePage(query, prev, widget, ran, env)
        ELSE HubHomePage(query, prev, widget,
                         [BlankPage(query, clicked) EXCEPT
                             !.error = QueryError(query)], env)

\* main: one run of the hub script. clicked: the run was started by a click on
\* Back to Home; keeps: the state of the selectbox survives a run that does
\* not draw it
hub_main(query, prev, widget, clicked, env, keeps) ==
    LET page == [BlankPage(query, clicked) EXCEPT !.back = TRUE]
        kept == IF keeps THEN widget ELSE {}
    IN  IF ValidIndex(query)
        THEN IF clicked
             THEN [query |-> NoQuery, prev |-> prev, widget |-> kept,
                   page |-> [page EXCEPT !.rerun = TRUE]]
             ELSE [query |-> query, prev |-> prev, widget |-> kept,
                   page |-> LET ran == WithModule([page EXCEPT !.heading = {query.v}],
                                                  query.v, env)
                            IN  [ran EXCEPT !.stopped = ~ran.interrupted]]
        ELSE HubHomePage(query, prev, widget,
                         [BlankPage(query, clicked) EXCEPT
                             !.error = QueryError(query)], env)

(* ---------------------- specification: the hub ----------------------- *)

HubInit ==
    /\ hub_query = NoQuery
    /\ hub_prev = {}
    /\ hub_widget = {}
    /\ hub_page = BlankPage(NoQuery, FALSE)
    /\ hub_rerun = FALSE
    /\ hub_reruns = 0
    /\ cagr_args = [start |-> NaN, end |-> NaN, years |-> 0, np |-> TRUE]
    /\ cagr_ret = Pending
    /\ DashIdle
    /\ ShareIdle
    /\ ChangeIdle
    /\ StatesIdle
    /\ PureIdle

\* one run of the script; reruns counts the st.rerun() calls before it
HubRun(query, prev, widget, clicked, reruns) ==
    \E env \in ModuleEnvs, keeps \in BOOLEAN :
        LET run == hub_main(query, prev, widget, clicked, env, keeps)
        IN  /\ hub_query' = run.query
            /\ hub_prev' = run.prev
            /\ hub_widget' = run.widget
            /\ hub_page' = run.page
            /\ hub_rerun' = run.page.rerun
            /\ hub_reruns' = IF run.page.rerun THEN reruns + 1 ELSE reruns
            /\ UNCHANGED cagr_vars
            /\ UNCHANGED dash_vars
            /\ UNCHANGED ms_vars
            /\ UNCHANGED chg_vars
            /\ UNCHANGED st_vars
            /\ UNCHANGED pure_vars

\* the browser loads a URL of the hub, typed or from a card of the home
\* page: a new session
UrlLoad ==
    /\ ~hub_rerun
    /\ \E query \in QueryValues : HubRun(query, {}, {}, FALSE, 0)

\* the user picks another option of the sidebar selectbox
SidebarChoice ==
    /\ ~hub_rerun
    /\ hub_page.sidebar
    /\ \E s \in SidebarOptions :
        /\ hub_widget /= {s}
        /\ HubRun(hub_query, hub_prev, {s}, FALSE, 0)

\* the user clicks Back to Home
BackClick ==
    /\ ~hub_rerun
    /\ hub_page.back
    /\ HubRun(hub_query, hub_prev, hub_widget, TRUE, 0)

\* the user changes a widget of the analysis shown: the script runs again
ModuleInteraction ==
    /\ ~hub_rerun
    /\ hub_page.modules /= <<>>
    /\ HubRun(hub_query, hub_prev, hub_widget, FALSE, 0)

\* the run that st.rerun() asked for
RerunStep ==
    /\ hub_rerun
    /\ hub_reruns < MaxReruns
    /\ HubRun(hub_query, hub_prev, hub_widget, FALSE, hub_reruns)

HubNext ==
    \/ UrlLoad
    \/ SidebarChoice
    \/ BackClick
    \/ ModuleInteraction
    \/ RerunStep

SpecHub == HubInit /\ [][HubNext]_vars

\* a rerun that was asked for is run
SpecHubFair == SpecHub /\ WF_vars(RerunStep)

(* ------------------------- claims on the hub ------------------------- *)

\* the script has run at least once
HubRan == hub_page.back \/ hub_page.sidebar

\* the calls of run_analysis_module made by the last run
ModuleCalls == {hub_page.calls[k] : k \in 1..Len(hub_page.calls)}

\* the last run drew no part of the hub home page
NoHomePage ==
    ~hub_page.sidebar /\ ~hub_page.home /\ hub_page.error = "none"

\* the last run executed the analysis of its query parameter, that one only,
\* and ended there
RanRequestedAnalysis ==
    /\ hub_page.modules = <<hub_page.param.v>>
    /\ hub_page.stopped \/ hub_page.interrupted
    /\ ~hub_page.rerun

\* C23 as stated: when the "analysis" query parameter parses to an integer i
\* with 0 <= i < number of analyses, the run executes exactly one analysis
\* module, the one at analyses[i], and stops before any part of the hub home
\* page is rendered.
C23_ValidParameterRunsItsAnalysis ==
    (HubRan /\ ValidIndex(hub_page.param))
        => RanRequestedAnalysis /\ NoHomePage

\* C23 amended: a run with a valid parameter draws no part of the hub home
\* page; it executes exactly the analysis at analyses[i] and stops, unless it
\* was started by a click on Back to Home: then it executes no analysis,
\* clears the query parameters and asks for a rerun.
C23_ValidParameterUnlessBackClicked ==
    (HubRan /\ ValidIndex(hub_page.param))
        => /\ NoHomePage
           /\ ~hub_page.clicked => RanRequestedAnalysis
           /\ hub_page.clicked =>
                  /\ hub_page.modules = <<>>
                  /\ hub_page.rerun
                  /\ hub_query = NoQuery

\* a URL with the index of the last analysis was loaded, and its module ran
\* to completion before st.stop()
C23_Witness ==
    /\ hub_page.param = QueryOf(NumAnalyses - 1)
    /\ ~hub_page.clicked
    /\ hub_page.modules = <<NumAnalyses - 1>>
    /\ hub_page.calls[1].res.ret = "True"
    /\ hub_page.stopped

\* C24: when the "analysis" query parameter is not an integer or is outside
\* 0..number of analyses - 1, the run reports an error, runs no analysis
\* module, and renders the hub home page with the sidebar selection
\* defaulting to "Hub Home".
C24_InvalidParameterErrorOnHomePage ==
    (HubRan /\ hub_page.param /= NoQuery /\ ~ValidIndex(hub_page.param))
        => /\ hub_page.error /= "none"
           /\ hub_page.modules = <<>>
           /\ hub_page.selected = {HubHome}
           /\ hub_page.home

\* C27: hub navigation never loops: from any combination of query
\* parameter, remembered previous selection and sidebar selection, a single
\* user action (sidebar choice, Back to Home click, URL load, or a widget of
\* the analysis shown) is followed by at most one st.rerun() call, and a run
\* asked for by st.rerun() is followed by a run that finishes without asking
\* for another one.
C27_NavigationSettles ==
    /\ [](hub_reruns <= 1)
    /\ hub_rerun ~> ~hub_rerun

\* the run asked for by the one st.rerun() of a user action has finished
\* with the page of an analysis
C27_Witness ==
    /\ hub_reruns = 1
    /\ ~hub_rerun
    /\ hub_page.modules /= <<>>

\* the call met a script control exception, which is no ordinary exception
MetControlException(env) ==
    "ScriptControlException" \in {env.exec_module, env.main}

\* C28: run_analysis_module never propagates an ordinary exception to the
\* hub: what it lets through is a script control exception; it returns True
\* exactly when the file exists, the module was imported, has a main and main
\* ran to completion; in every other case without a control exception
\* (missing file, no spec, no loader, import failure, no main, exception
\* inside main) it reports the problem and returns False.
C28_ReportsAndReturnsFalse ==
    \A c \in ModuleCalls :
        /\ c.res.ret = "raised" => MetControlException(c.env)
        /\ c.res.ret = "True" <=> FailedSteps(c.env) = {}
        /\ (FailedSteps(c.env) /= {} /\ ~MetControlException(c.env))
               => c.res.ret = "False" /\ c.res.report /= "none"

\* main of the module raised an ordinary exception, and the last run of the
\* hub got False and an error report for it
C28_Witness ==
    \E c \in ModuleCalls :
        /\ c.env.main = "Exception"
        /\ c.res = ModuleResult("False", "error: running")

====
